---------------------------- MODULE Spec2Model ----------------------------
(***************************************************************************)
(* Gaze estimation, temporal smoothing, calibration and drag guard of the  *)
(* li-enteract tracker scripts.                                            *)
(*                                                                         *)
(* Each script of the repository is a program of its own; a behaviour of   *)
(* this module is a run of one of them, and one specification is given per *)
(* script:                                                                 *)
(*   eye-tracking-ml.py            EyeTrackingML          SpecML, SpecSweep*)
(*   gaze-ml-improved.py           TauriGazeTracker       SpecTauri        *)
(*   gaze-tracker-application.py   GazeTrackerApplication SpecApp          *)
(*   multi-screen-eye-tracking.py  ImprovedEyeTracker     SpecMulti        *)
(*                                                                         *)
(* Arithmetic.  The code computes in IEEE floating point.  Here a float is *)
(* a fixed-point integer and every multiplication or division rounds to    *)
(* the nearest unit, so that rounding error exists in the model as it does *)
(* in the code:                                                            *)
(*   coordinates    units of 1/CoordScale pixel                            *)
(*   normalized     units of 1/NormScale   (regressor output, iris, [0,1]) *)
(*   weights        units of 1/WScale                                      *)
(*   confidence     units of 1/1000                                        *)
(*   time           ticks (1/TicksPerSecond s where durations matter)      *)
(***************************************************************************)
EXTENDS Integers, Sequences, FiniteSets, TLC

\* ------------------------------------------------------------------ bounds
\* Resolution of the fixed-point numbers.
CoordScale == 10
NormScale == 9000
WScale == 10000
\* Guard digits and number of terms of the series that evaluates exp.
ExpGuard == 100
ExpTerms == 14
\* Frames a run processes.
MaxFrames == 6

\* ------------------------------------------------------------- arithmetic
Abs(a) == IF a < 0 THEN -a ELSE a

Min(a, b) == IF a < b THEN a ELSE b

Max(a, b) == IF a > b THEN a ELSE b

\* a / b rounded to the nearest unit (b > 0): one floating-point division.
RoundDiv(a, b) == (2 * a + b) \div (2 * b)

\* Optional[T]: None is the empty sequence, a value v is <<v>>.
None == << >>

Some(v) == <<v>>

RECURSIVE SumSeq(_)
SumSeq(s) == IF s = << >> THEN 0 ELSE Head(s) + SumSeq(Tail(s))

\* sum_{n >= i} term_n of the exponential series of num/den, term_i = term.
RECURSIVE ExpSeries(_, _, _, _)
ExpSeries(num, den, i, term) ==
    IF i > ExpTerms \/ term = 0
    THEN 0
    ELSE term + ExpSeries(num, den, i + 1, RoundDiv(term * num, den * i))

\* np.exp(num/den), in units of 1/WScale.
Exp(num, den) == RoundDiv(ExpSeries(num, den, 1, WScale * ExpGuard), ExpGuard)

\* np.exp(np.linspace(-1, 0, n)): entry i (1..n) is exp(-1 + (i-1)/(n-1)).
ExpWeights(n) ==
    [i \in 1..n |-> IF n = 1 THEN Exp(-1, 1) ELSE Exp(i - n, n - 1)]

\* The weights left as np.exp gives them.
Normalize_Skipped(w) == w

\* weights /= weights.sum()
Normalize(w) == [i \in 1..Len(w) |-> RoundDiv(w[i] * WScale, SumSeq(w))]

\* sum(w * v for w, v in zip(weights, values)): every product is rounded.
WeightedSum(w, v) == SumSeq([i \in 1..Len(v) |-> RoundDiv(w[i] * v[i], WScale)])

\* The normalized weights for every history length a tracker can have
\* (they depend on the length alone).
MaxHistory == 10

SmoothingWeights == [n \in 1..MaxHistory |-> Normalize(ExpWeights(n))]

\* The deque(maxlen=...) append: the oldest entry is evicted when full.
DequeAppend(h, v, maxlen) ==
    IF maxlen = 0 THEN << >>
    ELSE IF Len(h) >= maxlen THEN Append(Tail(h), v)
    ELSE Append(h, v)

\* ------------------------------------------------------------------ state
VARIABLES
    script,               \* which script of the repository is running
    clock,                \* time.time(), in ticks
    \* EyeTrackingML (eye-tracking-ml.py)
    ml_screen_width,      \* self.screen_width
    ml_screen_height,     \* self.screen_height
    ml_smoothing_window,  \* self.smoothing_window
    ml_gaze_history,      \* self.gaze_history
    ml_raw_gaze,          \* raw_gaze of the last process_frame (or None)
    ml_gaze_point,        \* gaze_point returned by the last process_frame
    ml_prev_gaze,         \* result of the smooth_gaze call before the last one
    ml_frames,            \* frames processed
    \* TauriGazeTracker (gaze-ml-improved.py)
    tg_mesh,              \* self.monitor_mesh
    tg_cap,               \* run_tracking's cap is not None
    tg_pause_tracking,    \* self.pause_tracking
    tg_is_calibrated,     \* self.is_calibrated
    tg_gaze_history,      \* self.gaze_history
    tg_raw_gaze,          \* raw_gaze of the last loop iteration (or None)
    tg_gaze_point,        \* gaze_point of the last loop iteration (or None)
    tg_last_output_time,  \* run_tracking's last_output_time
    tg_output,            \* the JSON record the last iteration printed (or None)
    tg_frame_count,       \* self.frame_count
    tg_iterations,        \* iterations of the loop of run_tracking so far
    tg_frame,             \* what the camera and the face mesh held for the last one
    \* WindowDragHandler (gaze-ml-improved.py)
    dh_is_dragging,       \* self.is_dragging
    dh_drag_start_time,   \* self.drag_start_time
    dh_drag_last_position,\* self.drag_last_position
    dh_last_stable_time,  \* self.last_stable_time
    dh_result,            \* what the last detect_window_drag returned (or None)
    dh_gaze,              \* current_gaze of the last detect_window_drag call
    dh_bounds,            \* window_bounds of the last detect_window_drag call
    dh_calls,             \* detect_window_drag calls made
    dh_dwell_start,       \* when the gaze began to rest at the recorded position
    \* GazeTrackerApplication (gaze-tracker-application.py)
    app_host,             \* who calls the tracker: main, or a caller of the class
    app_exited,           \* main has left its command loop
    app_mesh,             \* self.monitor_mesh
    app_gaze_history,     \* self.gaze_history
    app_calibration_points,    \* self.calibration_points
    app_calibration_transform, \* rows 0 and 1 of self.calibration_transform
    app_is_calibrated,    \* self.is_calibrated
    app_raw_gaze,         \* gaze_result of the last get_gaze_data (or None)
    app_gaze_data,        \* what the last get_gaze_data returned (or None)
    app_result,           \* what the last add_/finish_calibration returned
    app_last_call,        \* the method called last
    app_calls,            \* calls made
    \* ImprovedEyeTracker and its window (multi-screen-eye-tracking.py)
    ms_screens,           \* self.screens
    ms_virtual_desktop,   \* self.virtual_desktop
    ms_loaded,            \* the calibration file as load_calibration found it
    ms_saved,             \* improved_eye_tracker_calibration.json (or None)
    ms_camera,            \* camera thread: "stopped", "running", "crashed"
    ms_gaze_history,      \* self.gaze_history
    ms_current_gaze,      \* self.current_gaze
    ms_current_raw_gaze,  \* self.current_raw_gaze, in units of 1/FitScale
    ms_mapped,            \* the last map_gaze_to_virtual_desktop call (or None)
    ms_calibration_points,     \* self.calibration_points
    ms_calibration_data,  \* self.calibration_data (None is the empty dict)
    ms_is_calibrated,     \* self.is_calibrated
    ms_calibration_enabled,    \* self.calibration_enabled
    ms_result,            \* what the last calculate_enhanced_calibration returned
    ms_fits,              \* fits that succeeded since construction
    ms_last_call,         \* the handler run last
    ms_steps,             \* handlers run
    \* RealtimeWhisperTranscriber (real-time-optimized-whisper-transcriber.py)
    wt_main,              \* where start_transcription is
    wt_is_running,        \* self.is_running
    wt_queue,             \* self.audio_queue: the buffers queued, oldest first
    wt_callbacks,         \* audio_callback calls so far; the last one's buffer
    wt_cb_pc,             \* where the audio_callback in progress is
    wt_loop_pc,           \* where the thread of process_audio_stream is
    wt_raw,               \* raw_audio_data of process_audio_stream (0: none)
    wt_audio_buffer,      \* len(self.audio_buffer), in half seconds of audio
    wt_alive,             \* threads of process_buffer_fast that are alive
    wt_proc_pc,           \* where the thread holding processing_lock is
    wt_audio_data,        \* len(audio_data) of that thread
    wt_to_remove,         \* poplefts its trimming loop has left
    wt_trigger,           \* what the last processing trigger did
    wt_first,             \* samples that have left audio_buffer on its left
    wt_window_end,        \* samples extended when audio_data was copied
    wt_outcome,           \* how the last transcription ended
    \* MonitorMesh coordinate conversion (gaze-ml-improved.py)
    mm_mesh,              \* the MonitorMesh
    mm_norm,              \* the normalized point (norm_x, norm_y) given
    mm_abs,               \* denormalize_coordinates of it
    mm_back,              \* normalize_coordinates of that
    \* main and EyeTrackingML.run_tracking (eye-tracking-ml.py)
    rt_pc,                \* where the program is
    rt_args,              \* the command line
    rt_exit_status,       \* the exit status of the process, once it has ended
    rt_tracker,           \* an EyeTrackingML object has been constructed
    rt_debug_mode,        \* self.debug_mode
    rt_is_calibrated,     \* self.is_calibrated
    rt_fitted,            \* a calibration fit has succeeded since the last reset
    rt_processing,        \* self.processing
    rt_attempt,           \* attempts to open the camera so far
    rt_camera_available,  \* camera_available (cap is None when it is False)
    rt_lost,              \* no attempt succeeded, or a frame read has failed
    rt_reads,             \* cap.read() calls of the tracking loop so far
    rt_calib_reads,       \* runs of calibrate that read the camera so far
    rt_stop_requested,    \* stop_tracking, the quit key or Ctrl+C has come
    rt_frame_count,       \* frame_count
    rt_gaze_history,      \* self.gaze_history
    rt_stdout             \* the lines the last step wrote to standard output

mlVars == <<ml_screen_width, ml_screen_height, ml_smoothing_window,
            ml_gaze_history, ml_raw_gaze, ml_gaze_point, ml_prev_gaze,
            ml_frames>>

tgVars == <<tg_mesh, tg_cap, tg_pause_tracking, tg_is_calibrated,
            tg_gaze_history, tg_raw_gaze, tg_gaze_point, tg_last_output_time,
            tg_output, tg_frame_count, tg_iterations, tg_frame>>

dhVars == <<dh_is_dragging, dh_drag_start_time, dh_drag_last_position,
            dh_last_stable_time, dh_result, dh_gaze, dh_bounds, dh_calls,
            dh_dwell_start>>

appVars == <<app_host, app_exited, app_mesh, app_gaze_history,
             app_calibration_points, app_calibration_transform,
             app_is_calibrated, app_raw_gaze, app_gaze_data, app_result,
             app_last_call, app_calls>>

msVars == <<ms_screens, ms_virtual_desktop, ms_loaded, ms_saved, ms_camera,
            ms_gaze_history, ms_current_gaze, ms_current_raw_gaze, ms_mapped,
            ms_calibration_points, ms_calibration_data, ms_is_calibrated,
            ms_calibration_enabled, ms_result, ms_fits, ms_last_call, ms_steps>>

wtVars == <<wt_main, wt_is_running, wt_queue, wt_callbacks, wt_cb_pc,
            wt_loop_pc, wt_raw, wt_audio_buffer, wt_alive, wt_proc_pc,
            wt_audio_data, wt_to_remove, wt_trigger, wt_first,
            wt_window_end, wt_outcome>>

mmVars == <<mm_mesh, mm_norm, mm_abs, mm_back>>

rtVars == <<rt_pc, rt_args, rt_exit_status, rt_tracker, rt_debug_mode,
            rt_is_calibrated, rt_fitted, rt_processing, rt_attempt,
            rt_camera_available, rt_lost, rt_reads, rt_calib_reads,
            rt_stop_requested, rt_frame_count, rt_gaze_history, rt_stdout>>

vars == <<script, clock, mlVars, tgVars, dhVars, appVars, msVars, wtVars, mmVars,
          rtVars>>

\* GazePoint dataclass (the raw_pupil fields are carried along unchanged and
\* read by nothing; they are left out).
GazePoint(x, y, confidence, timestamp) ==
    [x |-> x, y |-> y, confidence |-> confidence, timestamp |-> timestamp]

\* ---------------------------------------------------------------- scripts
\* The state of the objects of a script that is not the one running.
ML_Idle ==
    /\ ml_screen_width = 0
    /\ ml_screen_height = 0
    /\ ml_smoothing_window = 0
    /\ ml_gaze_history = << >>
    /\ ml_raw_gaze = None
    /\ ml_gaze_point = None
    /\ ml_prev_gaze = None
    /\ ml_frames = 0

TG_Idle ==
    /\ tg_mesh = None
    /\ tg_cap = FALSE
    /\ tg_pause_tracking = FALSE
    /\ tg_is_calibrated = FALSE
    /\ tg_gaze_history = << >>
    /\ tg_raw_gaze = None
    /\ tg_gaze_point = None
    /\ tg_last_output_time = 0
    /\ tg_output = None
    /\ tg_frame_count = 0
    /\ tg_iterations = 0
    /\ tg_frame = None

DH_Idle ==
    /\ dh_is_dragging = FALSE
    /\ dh_drag_start_time = 0
    /\ dh_drag_last_position = None
    /\ dh_last_stable_time = 0
    /\ dh_result = None
    /\ dh_gaze = None
    /\ dh_bounds = None
    /\ dh_calls = 0
    /\ dh_dwell_start = None

APP_Idle ==
    /\ app_host = "none"
    /\ app_exited = FALSE
    /\ app_mesh = None
    /\ app_gaze_history = << >>
    /\ app_calibration_points = << >>
    /\ app_calibration_transform = << >>
    /\ app_is_calibrated = FALSE
    /\ app_raw_gaze = None
    /\ app_gaze_data = None
    /\ app_result = None
    /\ app_last_call = "none"
    /\ app_calls = 0

\* What an action of one script leaves alone.
MS_Idle ==
    /\ ms_screens = << >>
    /\ ms_virtual_desktop = None
    /\ ms_loaded = None
    /\ ms_saved = None
    /\ ms_camera = "stopped"
    /\ ms_gaze_history = << >>
    /\ ms_current_gaze = <<0, 0>>
    /\ ms_current_raw_gaze = <<0, 0>>
    /\ ms_mapped = None
    /\ ms_calibration_points = << >>
    /\ ms_calibration_data = None
    /\ ms_is_calibrated = FALSE
    /\ ms_calibration_enabled = FALSE
    /\ ms_result = None
    /\ ms_fits = 0
    /\ ms_last_call = "none"
    /\ ms_steps = 0

WT_Idle ==
    /\ wt_main = "none"
    /\ wt_is_running = FALSE
    /\ wt_queue = << >>
    /\ wt_callbacks = 0
    /\ wt_cb_pc = "idle"
    /\ wt_loop_pc = "none"
    /\ wt_raw = 0
    /\ wt_audio_buffer = 0
    /\ wt_alive = 0
    /\ wt_proc_pc = "none"
    /\ wt_audio_data = 0
    /\ wt_to_remove = 0
    /\ wt_trigger = "none"
    /\ wt_first = 0
    /\ wt_window_end = 0
    /\ wt_outcome = "none"

RT_Idle ==
    /\ rt_pc = "none"
    /\ rt_args = << >>
    /\ rt_exit_status = << >>
    /\ rt_tracker = FALSE
    /\ rt_debug_mode = FALSE
    /\ rt_is_calibrated = FALSE
    /\ rt_fitted = FALSE
    /\ rt_processing = FALSE
    /\ rt_attempt = 0
    /\ rt_camera_available = FALSE
    /\ rt_lost = FALSE
    /\ rt_reads = 0
    /\ rt_calib_reads = 0
    /\ rt_stop_requested = FALSE
    /\ rt_frame_count = 0
    /\ rt_gaze_history = << >>
    /\ rt_stdout = << >>

MM_Idle ==
    /\ mm_mesh = << >>
    /\ mm_norm = << >>
    /\ mm_abs = << >>
    /\ mm_back = << >>

ML_Others == <<script, tgVars, dhVars, appVars, msVars, wtVars, mmVars,
                rtVars>>

TG_Others == <<script, mlVars, dhVars, appVars, msVars, wtVars, mmVars,
                rtVars>>

DH_Others == <<script, mlVars, tgVars, appVars, msVars, wtVars, mmVars,
                rtVars>>

APP_Others == <<script, mlVars, tgVars, dhVars, msVars, wtVars, mmVars,
                 rtVars>>

MS_Others == <<script, mlVars, tgVars, dhVars, appVars, wtVars, mmVars,
                rtVars>>

WT_Others == <<script, clock, mlVars, tgVars, dhVars, appVars, msVars, mmVars,
                rtVars>>

MM_Others == <<script, clock, mlVars, tgVars, dhVars, appVars, msVars, wtVars,
                rtVars>>

RT_Others == <<script, mlVars, tgVars, dhVars, appVars, msVars, wtVars, mmVars>>

\* =========================================================================
\* EyeTrackingML
\* =========================================================================
\* Screen sizes given on the command line, in pixels.
Screens == {<<1920, 1080>>, <<1280, 720>>}

\* Capacities of the gaze history given on the command line.
MaxWindow == 6

\* What the regressor predicts for a frame, in units of 1/NormScale: its
\* output layer is linear, so the prediction is not confined to [0,1].
PredPoints ==
    {<<-(NormScale \div 10), (3 * NormScale) \div 10>>,
     <<(3 * NormScale) \div 10, (3 * NormScale) \div 10>>,
     <<NormScale, (12 * NormScale) \div 10>>}

\* confidence = 0.8
ML_Confidence == 800

\* EyeTrackingML.estimate_gaze: the prediction scaled by the screen size.
ML_estimate_gaze(pred, w, h, now) ==
    GazePoint(RoundDiv(pred[1] * w * CoordScale, NormScale),
              RoundDiv(pred[2] * h * CoordScale, NormScale),
              ML_Confidence, now)

\* The weighted average of smooth_gaze over a history of at least 2 points;
\* confidence and timestamp are those of the point just added.
ExpSmoothed(history, newest) ==
    LET weights == SmoothingWeights[Len(history)]
    IN  GazePoint(WeightedSum(weights, [i \in 1..Len(history) |-> history[i].x]),
                  WeightedSum(weights, [i \in 1..Len(history) |-> history[i].y]),
                  newest.confidence, newest.timestamp)

\* smooth_gaze with the averaging left out.
ML_smooth_gaze_Unsmoothed(history, gaze_point) == gaze_point

\* EyeTrackingML.smooth_gaze on the history the point was appended to.
ML_smooth_gaze(history, gaze_point) ==
    IF Len(history) < 2 THEN gaze_point ELSE ExpSmoothed(history, gaze_point)

\* EyeTrackingML.process_frame on a frame in which the face mesh finds a face
\* and the features can be extracted; pred is what the regressor predicts.
ML_process_frame(pred) ==
    LET raw == ML_estimate_gaze(pred, ml_screen_width, ml_screen_height, clock)
        hist == DequeAppend(ml_gaze_history, raw, ml_smoothing_window)
    IN  /\ clock' = clock + 1
        /\ ml_frames' = ml_frames + 1
        /\ ml_raw_gaze' = Some(raw)
        /\ ml_gaze_history' = hist
        /\ ml_gaze_point' = Some(ML_smooth_gaze(hist, raw))
        /\ ml_prev_gaze' = ml_gaze_point
        /\ UNCHANGED <<ml_screen_width, ml_screen_height, ml_smoothing_window>>
        /\ UNCHANGED ML_Others

\* EyeTrackingML.process_frame on a frame without a face (or without usable
\* landmarks): no gaze point, and the history is left alone.
ML_NoFace ==
    /\ script = "ml"
    /\ ml_gaze_point /= None
    /\ ml_raw_gaze' = None
    /\ ml_gaze_point' = None
    /\ UNCHANGED <<clock, ml_frames, ml_gaze_history, ml_prev_gaze,
                   ml_screen_width, ml_screen_height, ml_smoothing_window>>
    /\ UNCHANGED ML_Others

\* EyeTrackingML.__init__ and main: the tracker as constructed.
ML_Constructed ==
    /\ \E s \in Screens : ml_screen_width = s[1] /\ ml_screen_height = s[2]
    /\ ml_smoothing_window \in 0..MaxWindow
    /\ ml_gaze_history = << >>
    /\ ml_raw_gaze = None
    /\ ml_gaze_point = None
    /\ ml_prev_gaze = None
    /\ ml_frames = 0

ML_Init ==
    /\ script = "ml"
    /\ clock = 1
    /\ ML_Constructed
    /\ TG_Idle
    /\ DH_Idle
    /\ APP_Idle
    /\ MS_Idle
    /\ WT_Idle
    /\ MM_Idle
    /\ RT_Idle

\* One iteration of run_tracking with a frame from the camera.
ML_Frame ==
    /\ script = "ml"
    /\ ml_frames < MaxFrames
    /\ \E pred \in PredPoints : ML_process_frame(pred)

ML_Next == ML_Frame \/ ML_NoFace

SpecML == ML_Init /\ [][ML_Next]_vars

\* C1: the GazePoint estimate_gaze returns has 0 <= x <= screen_width and
\* 0 <= y <= screen_height, whatever the regressor predicts.
C1_EstimateOnScreen ==
    ml_raw_gaze /= None =>
        /\ 0 <= ml_raw_gaze[1].x
        /\ ml_raw_gaze[1].x <= ml_screen_width * CoordScale
        /\ 0 <= ml_raw_gaze[1].y
        /\ ml_raw_gaze[1].y <= ml_screen_height * CoordScale

\* ---- the sweep scenario: SweepPoints frames whose predictions rise
\* linearly from (0.1, 0.1) to (0.9, 0.9).
SweepPoints == 10

SweepPred(i) ==
    LET v == RoundDiv(NormScale * ((SweepPoints - 1) + 8 * i),
                      10 * (SweepPoints - 1))
    IN  <<v, v>>

Sweep_Init == ML_Init /\ ml_smoothing_window >= 2

ML_SweepFrame ==
    /\ script = "ml"
    /\ ml_frames < SweepPoints
    /\ ML_process_frame(SweepPred(ml_frames))

Sweep_Next == ML_SweepFrame

SpecSweep == Sweep_Init /\ [][Sweep_Next]_vars

Monitor(x, y, width, height, is_primary) ==
    [x |-> x, y |-> y, width |-> width, height |-> height,
     is_primary |-> is_primary]

SetMin(S) == CHOOSE a \in S : \A b \in S : a <= b

SetMax(S) == CHOOSE a \in S : \A b \in S : a >= b

\* MonitorMesh.__post_init__: the first monitor flagged primary, else the
\* first monitor.
PrimaryOf(monitors) ==
    LET flagged == {i \in 1..Len(monitors) : monitors[i].is_primary}
    IN  IF flagged = {} THEN monitors[1] ELSE monitors[SetMin(flagged)]

\* detect_monitor_mesh: the virtual desktop is the bounding box of the
\* monitors the platform enumerates.
MeshOf(monitors) ==
    LET idx == 1..Len(monitors)
        virtual_left == SetMin({monitors[i].x : i \in idx})
        virtual_top == SetMin({monitors[i].y : i \in idx})
        virtual_right == SetMax({monitors[i].x + monitors[i].width : i \in idx})
        virtual_bottom == SetMax({monitors[i].y + monitors[i].height : i \in idx})
    IN  [monitors |-> monitors,
         virtual_width |-> virtual_right - virtual_left,
         virtual_height |-> virtual_bottom - virtual_top,
         virtual_left |-> virtual_left,
         virtual_top |-> virtual_top,
         primary_monitor |-> PrimaryOf(monitors)]

\* Monitor layouts the platform reports.
MonitorLayouts ==
    {<<Monitor(0, 0, 1920, 1080, TRUE)>>,
     <<Monitor(0, 0, 1920, 1080, TRUE), Monitor(1920, 0, 1920, 1080, FALSE)>>,
     <<Monitor(-2560, 0, 2560, 1440, FALSE), Monitor(0, 0, 1920, 1080, TRUE)>>}

\* main: the mesh detect_monitor_mesh returns, with virtual_width and
\* virtual_height replaced when --screen-width and --screen-height are both
\* given (override is None when they are not).
TG_main_mesh(monitors, override) ==
    LET mesh == MeshOf(monitors)
    IN  IF override = None
        THEN mesh
        ELSE [mesh EXCEPT !.virtual_width = override[1][1],
                          !.virtual_height = override[1][2]]

\* The --screen-width and --screen-height a run is started with.
MeshOverrides == {None, Some(<<1920, 1080>>)}

\* The meshes main hands to the tracker.
Meshes == {TG_main_mesh(m, o) : m \in MonitorLayouts, o \in MeshOverrides}

\* =========================================================================
\* TauriGazeTracker
\* =========================================================================
\* Resolution of the sensitivity multiplier.
SensScale == 100

\* Milliseconds per second: the Tauri loop and the drag handler count the
\* clock in milliseconds.
TicksPerSecond == 1000

\* Loop iterations a run makes.
MaxTauriFrames == 5

\* s ** 10 for a multiplier s, both in units of 1/SensScale.
PowTen(s) ==
    LET s2 == RoundDiv(s * s, SensScale)
        s4 == RoundDiv(s2 * s2, SensScale)
        s5 == RoundDiv(s4 * s, SensScale)
    IN  RoundDiv(s5 * s5, SensScale)

RECURSIVE RootSearch(_, _)
RootSearch(s, target) ==
    IF PowTen(s + 1) <= target /\ s < 4 * SensScale
    THEN RootSearch(s + 1, target)
    ELSE s

\* size_ratio ** 0.3, in units of 1/SensScale: the largest s with
\* s ** 10 <= size_ratio ** 3.
PowThreeTenths(num, den) ==
    LET r == RoundDiv(num * SensScale, den)
        r2 == RoundDiv(r * r, SensScale)
        r3 == RoundDiv(r2 * r, SensScale)
    IN  RootSearch(0, r3)

\* The sensitivity multiplier of estimate_gaze_enhanced.
SensitivityMultiplier(mesh) ==
    IF Len(mesh.monitors) > 1
    THEN LET area(m) == m.width * m.height
             idx == 1..Len(mesh.monitors)
             largest == mesh.monitors[
                 CHOOSE i \in idx :
                     \A j \in idx : area(mesh.monitors[i]) >= area(mesh.monitors[j])]
             size_ratio == PowThreeTenths(area(largest),
                                          area(mesh.primary_monitor))
         IN  Min((5 * SensScale) \div 2, Max(SensScale, size_ratio))
    ELSE (3 * SensScale) \div 2

Sensitivity == [m \in Meshes |-> SensitivityMultiplier(m)]

Clamp(lo, v, hi) == Max(lo, Min(v, hi))

\* Landmark counts of a face mesh: without iris refinement, with part of the
\* iris ring, with all of it.
LEFT_IRIS == {474, 475, 476, 477, 473}

RIGHT_IRIS == {469, 470, 471, 472, 468}

\* TauriGazeTracker.estimate_gaze_enhanced: n landmarks whose iris points
\* average to iris (units of 1/NormScale).  None when the face mesh is too
\* short or has fewer than 3 iris points for an eye.
TG_estimate_gaze_enhanced(mesh, n, iris, now) ==
    LET left_iris_points == Cardinality({idx \in LEFT_IRIS : idx < n})
        right_iris_points == Cardinality({idx \in RIGHT_IRIS : idx < n})
        sens == Sensitivity[mesh]
        half == NormScale \div 2
        corrected_iris_x == NormScale - iris[1]
        corrected_iris_y == iris[2]
        centered_x == Clamp(0,
            RoundDiv((corrected_iris_x - half) * sens, SensScale) + half,
            NormScale)
        centered_y == Clamp(0,
            RoundDiv(RoundDiv((corrected_iris_y - half) * sens, SensScale) * 16,
                     10) + half,
            NormScale)
        vleft == mesh.virtual_left * CoordScale
        vtop == mesh.virtual_top * CoordScale
        vright == (mesh.virtual_left + mesh.virtual_width) * CoordScale
        vbottom == (mesh.virtual_top + mesh.virtual_height) * CoordScale
        screen_x == vleft + RoundDiv(centered_x * mesh.virtual_width * CoordScale,
                                     NormScale)
        screen_y == vtop + RoundDiv(centered_y * mesh.virtual_height * CoordScale,
                                    NormScale)
        confidence == IF left_iris_points >= 4 /\ right_iris_points >= 4
                      THEN 900 ELSE 700
    IN  IF n < 468 \/ left_iris_points < 3 \/ right_iris_points < 3
        THEN None
        ELSE Some(GazePoint(Clamp(vleft, screen_x, vright - CoordScale),
                            Clamp(vtop, screen_y, vbottom - CoordScale),
                            confidence, now))

\* TauriGazeTracker.generate_demo_gaze: s1 = sin(t), s2 = sin(2t), in units
\* of 1/NormScale.
TG_generate_demo_gaze(mesh, s1, s2, now) ==
    LET vleft == mesh.virtual_left * CoordScale
        vtop == mesh.virtual_top * CoordScale
        vright == (mesh.virtual_left + mesh.virtual_width) * CoordScale
        vbottom == (mesh.virtual_top + mesh.virtual_height) * CoordScale
        base_x == vleft + (mesh.virtual_width * CoordScale) \div 2
        base_y == vtop + (mesh.virtual_height * CoordScale) \div 2
        demo_x == base_x
                  + RoundDiv(s1 * RoundDiv(3 * mesh.virtual_width * CoordScale, 10),
                             NormScale)
        demo_y == base_y
                  + RoundDiv(s2 * RoundDiv(2 * mesh.virtual_height * CoordScale, 10),
                             NormScale)
    IN  GazePoint(Clamp(vleft, demo_x, vright - CoordScale),
                  Clamp(vtop, demo_y, vbottom - CoordScale), 850, now)

\* TauriGazeTracker.smooth_gaze on the history the point was appended to.
TG_smooth_gaze(history, new_gaze) ==
    IF Len(history) < 2 THEN new_gaze ELSE ExpSmoothed(history, new_gaze)

\* GazePoint.to_json, with 'calibrated' as run_tracking sets it.
TG_to_json(gaze_point, calibrated) ==
    [x |-> gaze_point.x, y |-> gaze_point.y,
     confidence |-> gaze_point.confidence,
     timestamp |-> gaze_point.timestamp, calibrated |-> calibrated]

\* What one loop iteration can meet: the time since the last iteration (ms),
\* whether cap.read() succeeds, whether a face is found, the number of
\* landmarks and the mean iris position.
TG_Inputs ==
    {[dt |-> 40, ret |-> TRUE, face |-> TRUE, n |-> 478,
      iris |-> <<(4 * NormScale) \div 10, (5 * NormScale) \div 10>>,
      s1 |-> 0, s2 |-> 0],
     [dt |-> 10, ret |-> TRUE, face |-> TRUE, n |-> 476,
      iris |-> <<(6 * NormScale) \div 10, (4 * NormScale) \div 10>>,
      s1 |-> 0, s2 |-> 0],
     [dt |-> 40, ret |-> TRUE, face |-> TRUE, n |-> 468,
      iris |-> <<(5 * NormScale) \div 10, (5 * NormScale) \div 10>>,
      s1 |-> NormScale, s2 |-> 0],
     [dt |-> 40, ret |-> FALSE, face |-> FALSE, n |-> 0,
      iris |-> <<0, 0>>, s1 |-> 0, s2 |-> -NormScale]}

\* self.gaze_history = deque(maxlen=8)
TG_HistoryLen == 8

\* The loop never sees pause_tracking set.
TG_paused_Never == FALSE

\* self.pause_tracking as the loop of run_tracking reads it.
TG_paused == tg_pause_tracking

\* One iteration of the loop of TauriGazeTracker.run_tracking.
TG_Iteration(in) ==
    LET now == clock + in.dt
        reads == tg_cap /\ ~TG_paused
        raw == IF reads /\ in.ret /\ in.face
               THEN TG_estimate_gaze_enhanced(tg_mesh, in.n, in.iris, now)
               ELSE None
        hist == IF raw /= None
                THEN DequeAppend(tg_gaze_history, raw[1], TG_HistoryLen)
                ELSE tg_gaze_history
        tracked == IF raw /= None
                   THEN Some(TG_smooth_gaze(hist, raw[1]))
                   ELSE None
        demo == tracked = None /\ ~TG_paused
        gaze_point == IF demo
                      THEN Some(TG_generate_demo_gaze(tg_mesh, in.s1, in.s2, now))
                      ELSE tracked
        output_interval == TicksPerSecond \div 30
        emits == /\ gaze_point /= None
                 /\ now - tg_last_output_time >= output_interval
                 /\ ~TG_paused
    IN  /\ clock' = now
        /\ tg_iterations' = tg_iterations + 1
        /\ tg_frame' = Some(in)
        /\ tg_cap' = (tg_cap /\ (~reads \/ in.ret))
        /\ tg_raw_gaze' = raw
        /\ tg_gaze_history' = hist
        /\ tg_gaze_point' = gaze_point
        /\ tg_frame_count' = tg_frame_count
                             + (IF reads /\ in.ret THEN 1 ELSE 0)
                             + (IF demo THEN 1 ELSE 0)
        /\ tg_output' = IF emits
                        THEN Some(TG_to_json(gaze_point[1], tg_is_calibrated))
                        ELSE None
        /\ tg_last_output_time' = IF emits THEN now ELSE tg_last_output_time
        /\ UNCHANGED <<tg_mesh, tg_pause_tracking, tg_is_calibrated>>
        /\ UNCHANGED TG_Others

\* How a run starts: the monitor layout the platform reports, the
\* --screen-width and --screen-height given, whether the camera opens,
\* whether --calibrate was given (calibrate_simple).
TG_Configs ==
    {[monitors |-> <<Monitor(0, 0, 1920, 1080, TRUE)>>, override |-> None,
      camera |-> TRUE, calibrate |-> FALSE],
     [monitors |-> <<Monitor(0, 0, 1920, 1080, TRUE)>>, override |-> None,
      camera |-> FALSE, calibrate |-> FALSE],
     [monitors |-> <<Monitor(0, 0, 1920, 1080, TRUE),
                     Monitor(1920, 0, 1920, 1080, FALSE)>>, override |-> None,
      camera |-> TRUE, calibrate |-> TRUE],
     [monitors |-> <<Monitor(-2560, 0, 2560, 1440, FALSE),
                     Monitor(0, 0, 1920, 1080, TRUE)>>, override |-> None,
      camera |-> TRUE, calibrate |-> FALSE],
     [monitors |-> <<Monitor(0, 0, 1920, 1080, TRUE),
                     Monitor(1920, 0, 1920, 1080, FALSE)>>,
      override |-> Some(<<1920, 1080>>),
      camera |-> TRUE, calibrate |-> FALSE]}

\* main and TauriGazeTracker.__init__, up to the start of the loop.
TG_Constructed ==
    /\ \E c \in TG_Configs :
           /\ tg_mesh = TG_main_mesh(c.monitors, c.override)
           /\ tg_cap = c.camera
           /\ tg_is_calibrated = c.calibrate
    /\ tg_pause_tracking = FALSE
    /\ tg_gaze_history = << >>
    /\ tg_raw_gaze = None
    /\ tg_gaze_point = None
    /\ tg_last_output_time = 0
    /\ tg_output = None
    /\ tg_frame_count = 0
    /\ tg_iterations = 0
    /\ tg_frame = None

TG_Init ==
    /\ script = "tauri"
    /\ clock = 1
    /\ TG_Constructed
    /\ ML_Idle
    /\ DH_Idle
    /\ APP_Idle
    /\ MS_Idle
    /\ WT_Idle
    /\ MM_Idle
    /\ RT_Idle

TG_Loop ==
    /\ script = "tauri"
    /\ tg_iterations < MaxTauriFrames
    /\ \E in \in TG_Inputs : TG_Iteration(in)

\* TauriGazeTracker.pause_for_drag
TG_pause_for_drag ==
    /\ script \in {"tauri", "drag"}
    /\ tg_pause_tracking' = TRUE
    /\ UNCHANGED <<clock, tg_mesh, tg_cap, tg_is_calibrated, tg_gaze_history,
                   tg_raw_gaze, tg_gaze_point, tg_last_output_time, tg_output,
                   tg_frame_count, tg_iterations, tg_frame>>
    /\ UNCHANGED TG_Others

\* TauriGazeTracker.resume_after_drag
TG_resume_after_drag ==
    /\ script \in {"tauri", "drag"}
    /\ tg_pause_tracking' = FALSE
    /\ UNCHANGED <<clock, tg_mesh, tg_cap, tg_is_calibrated, tg_gaze_history,
                   tg_raw_gaze, tg_gaze_point, tg_last_output_time, tg_output,
                   tg_frame_count, tg_iterations, tg_frame>>
    /\ UNCHANGED TG_Others

TG_Next == TG_Loop \/ TG_pause_for_drag \/ TG_resume_after_drag

SpecTauri == TG_Init /\ [][TG_Next]_vars

\* C12: an iteration of the loop of run_tracking that runs while
\* pause_tracking is True writes no gaze record to stdout.
C12_NoOutputWhilePaused ==
    [][(tg_iterations' = tg_iterations + 1 /\ tg_pause_tracking)
           => tg_output' = None]_vars

\* An iteration has run while paused, with the camera holding a face, more
\* than an output interval after the last record: it has no gaze point and
\* wrote nothing.
C12_Witness ==
    /\ tg_pause_tracking
    /\ tg_iterations >= 2
    /\ tg_cap
    /\ tg_frame /= None
    /\ tg_frame[1].face
    /\ tg_gaze_point = None
    /\ tg_output = None
    /\ tg_last_output_time > 0
    /\ clock - tg_last_output_time >= TicksPerSecond \div 30

\* C13 (as stated): an iteration that runs while pause_tracking is True, with
\* the camera open and a face whose gaze can be estimated in the frame,
\* appends the estimate to gaze_history.
C13_HistoryKeptWhilePaused ==
    [][(/\ tg_iterations' = tg_iterations + 1
        /\ tg_pause_tracking
        /\ tg_cap
        /\ tg_frame'[1].ret
        /\ tg_frame'[1].face
        /\ TG_estimate_gaze_enhanced(tg_mesh, tg_frame'[1].n, tg_frame'[1].iris,
                                     clock') /= None)
       => tg_gaze_history' =
              DequeAppend(tg_gaze_history,
                          TG_estimate_gaze_enhanced(tg_mesh, tg_frame'[1].n,
                                                    tg_frame'[1].iris, clock')[1],
                          TG_HistoryLen)]_vars

\* =========================================================================
\* The still-eye scenario: every frame of a run yields the same raw x and y
\* (EyeTrackingML: the same prediction; TauriGazeTracker: the same iris
\* position, with all or part of the iris landmarks present).
\* =========================================================================
MaxConstFrames == 9

ConstPreds ==
    {<<(i * NormScale) \div 7, ((i + 2) * NormScale) \div 9>> : i \in 1..5}

ConstInputs ==
    {[dt |-> 40, ret |-> TRUE, face |-> TRUE, n |-> n, iris |-> iris,
      s1 |-> 0, s2 |-> 0] :
        n \in {476, 478},
        iris \in {<<(4 * NormScale) \div 10, (5 * NormScale) \div 10>>,
                  <<(47 * NormScale) \div 100, (53 * NormScale) \div 100>>}}

\* Every entry of the history has the x and y of point p.
ConstantHistory(history, p) ==
    \A i \in 1..Len(history) : history[i].x = p.x /\ history[i].y = p.y

ML_ConstFrame ==
    /\ script = "ml"
    /\ ml_frames < MaxConstFrames
    /\ \E pred \in ConstPreds :
           /\ ConstantHistory(ml_gaze_history,
                  ML_estimate_gaze(pred, ml_screen_width, ml_screen_height, clock))
           /\ ML_process_frame(pred)

TG_ConstLoop ==
    /\ script = "tauri"
    /\ tg_iterations < MaxConstFrames
    /\ \E in \in ConstInputs :
           /\ ConstantHistory(tg_gaze_history,
                  TG_estimate_gaze_enhanced(tg_mesh, in.n, in.iris, clock)[1])
           /\ TG_Iteration(in)

Const_Init == ML_Init \/ (TG_Init /\ tg_cap)

Const_Next == ML_ConstFrame \/ TG_ConstLoop

SpecConst == Const_Init /\ [][Const_Next]_vars

\* The result of smoothing a constant history is within the rounding error
\* of the weighted sum: half a unit for each of the n products, and half a
\* unit of weight for each of the n normalized weights.
WithinRounding(out, v, n) == 2 * WScale * Abs(out - v) <= n * WScale + n * Abs(v)

\* C3 (as amended): when every point of the history, the one just added
\* included, has the same x and y, smooth_gaze returns that x and y up to the
\* rounding error of the weighted sum, and exactly that x and y when the
\* history holds fewer than two points.
C3_ConstantInputUpToRounding ==
    /\ (ml_gaze_point /= None /\ ConstantHistory(ml_gaze_history, ml_raw_gaze[1])) =>
           LET n == Len(ml_gaze_history)
           IN  /\ WithinRounding(ml_gaze_point[1].x, ml_raw_gaze[1].x, n)
               /\ WithinRounding(ml_gaze_point[1].y, ml_raw_gaze[1].y, n)
               /\ n < 2 => /\ ml_gaze_point[1].x = ml_raw_gaze[1].x
                            /\ ml_gaze_point[1].y = ml_raw_gaze[1].y
    /\ (tg_raw_gaze /= None /\ ConstantHistory(tg_gaze_history, tg_raw_gaze[1])) =>
           LET n == Len(tg_gaze_history)
           IN  /\ WithinRounding(tg_gaze_point[1].x, tg_raw_gaze[1].x, n)
               /\ WithinRounding(tg_gaze_point[1].y, tg_raw_gaze[1].y, n)
               /\ n < 2 => /\ tg_gaze_point[1].x = tg_raw_gaze[1].x
                            /\ tg_gaze_point[1].y = tg_raw_gaze[1].y

\* A constant history at the capacity of the Tauri tracker has been smoothed
\* and the result differs from the constant by rounding only.
C3_Witness ==
    /\ tg_raw_gaze /= None
    /\ Len(tg_gaze_history) = TG_HistoryLen
    /\ ConstantHistory(tg_gaze_history, tg_raw_gaze[1])
    /\ tg_gaze_point[1].x /= tg_raw_gaze[1].x
    /\ WithinRounding(tg_gaze_point[1].x, tg_raw_gaze[1].x, TG_HistoryLen)

\* C3 (as stated): smooth_gaze returns exactly the x and y of a constant
\* history, at every history length.
C3_ConstantInputExact ==
    /\ (ml_gaze_point /= None /\ ConstantHistory(ml_gaze_history, ml_raw_gaze[1])) =>
           /\ ml_gaze_point[1].x = ml_raw_gaze[1].x
           /\ ml_gaze_point[1].y = ml_raw_gaze[1].y
    /\ (tg_raw_gaze /= None /\ ConstantHistory(tg_gaze_history, tg_raw_gaze[1])) =>
           /\ tg_gaze_point[1].x = tg_raw_gaze[1].x
           /\ tg_gaze_point[1].y = tg_raw_gaze[1].y

\* =========================================================================
\* WindowDragHandler
\* =========================================================================
\* detect_window_drag calls a run makes.
MaxDragCalls == 4

\* Height of the titlebar strip, in pixels.
TitlebarHeight == 30

\* self.drag_threshold, in pixels.
DragThreshold == 10

\* stable_time_required halved.
StableTimeRequired_Halved == TicksPerSecond \div 4

\* self.stable_time_required (0.5 s), in ticks.
StableTimeRequired == TicksPerSecond \div 2

\* The bounds of the tracked window, in pixels.
WindowBounds == {[x |-> 100, y |-> 100, width |-> 800, height |-> 600]}

\* Where the gaze can be when detect_window_drag is called, in pixels: in the
\* titlebar strip, close to that, on the lower edge of the strip, below the
\* strip, level with the strip but beside the window, above the window.
DragGazes ==
    {<<500, 115>>, <<505, 118>>, <<500, 130>>, <<500, 300>>, <<3000, 120>>,
     <<500, 50>>}

\* Time between two calls, in ticks.
DragSteps == {TicksPerSecond \div 4, TicksPerSecond \div 2}

\* in_titlebar of detect_window_drag, with the comparisons strict.
InTitlebar_Strict(current_gaze, window_bounds) ==
    /\ window_bounds.y * CoordScale < current_gaze.y
    /\ current_gaze.y < (window_bounds.y + TitlebarHeight) * CoordScale

\* in_titlebar of detect_window_drag: only the y of the gaze is compared.
InTitlebar(current_gaze, window_bounds) ==
    /\ window_bounds.y * CoordScale <= current_gaze.y
    /\ current_gaze.y <= (window_bounds.y + TitlebarHeight) * CoordScale

\* WindowDragHandler.detect_window_drag(current_gaze, window_bounds) at time
\* now; current_gaze is None or a GazePoint.
DH_detect_window_drag(current_gaze, window_bounds, now) ==
    LET in_titlebar ==
            /\ current_gaze /= None
            /\ InTitlebar(current_gaze[1], window_bounds)
        stable ==
            /\ Abs(current_gaze[1].x - dh_drag_last_position[1][1])
                   < DragThreshold * CoordScale
            /\ Abs(current_gaze[1].y - dh_drag_last_position[1][2])
                   < DragThreshold * CoordScale
    IN  IF in_titlebar /\ ~dh_is_dragging
        THEN \* potential drag start
             /\ dh_drag_start_time' = now
             /\ dh_drag_last_position' = Some(<<current_gaze[1].x, current_gaze[1].y>>)
             /\ dh_is_dragging' = TRUE
             /\ dh_result' = Some(TRUE)
             /\ UNCHANGED dh_last_stable_time
        ELSE IF dh_is_dragging /\ current_gaze /= None
                /\ dh_drag_last_position /= None
        THEN IF stable
             THEN IF dh_last_stable_time = 0
                  THEN /\ dh_last_stable_time' = now
                       /\ dh_result' = Some(dh_is_dragging)
                       /\ UNCHANGED <<dh_is_dragging, dh_drag_start_time,
                                      dh_drag_last_position>>
                  ELSE IF now - dh_last_stable_time > StableTimeRequired
                  THEN \* drag finished
                       /\ dh_is_dragging' = FALSE
                       /\ dh_last_stable_time' = 0
                       /\ dh_result' = Some(FALSE)
                       /\ UNCHANGED <<dh_drag_start_time, dh_drag_last_position>>
                  ELSE /\ dh_result' = Some(dh_is_dragging)
                       /\ UNCHANGED <<dh_is_dragging, dh_drag_start_time,
                                      dh_drag_last_position, dh_last_stable_time>>
             ELSE /\ dh_last_stable_time' = 0
                  /\ dh_drag_last_position' =
                         Some(<<current_gaze[1].x, current_gaze[1].y>>)
                  /\ dh_result' = Some(dh_is_dragging)
                  /\ UNCHANGED <<dh_is_dragging, dh_drag_start_time>>
        ELSE /\ dh_result' = Some(dh_is_dragging)
             /\ UNCHANGED <<dh_is_dragging, dh_drag_start_time,
                            dh_drag_last_position, dh_last_stable_time>>

\* The gaze point lies within drag_threshold of the recorded position.
AtRecordedPosition(current_gaze, position) ==
    /\ current_gaze /= None
    /\ position /= None
    /\ Abs(current_gaze[1].x - position[1][1]) < DragThreshold * CoordScale
    /\ Abs(current_gaze[1].y - position[1][2]) < DragThreshold * CoordScale

\* The time of the first of the calls that, one after the other, found the
\* gaze of a drag in progress at the recorded position; a call without a
\* gaze point says nothing about where the gaze is.  Kept beside the
\* handler, which does not read it.
DwellStart(current_gaze, now) ==
    IF ~dh_is_dragging THEN None
    ELSE IF current_gaze = None THEN dh_dwell_start
    ELSE IF ~AtRecordedPosition(current_gaze, dh_drag_last_position) THEN None
    ELSE IF dh_dwell_start = None THEN Some(now)
    ELSE dh_dwell_start

\* A call of detect_window_drag by the host of the tracker.
DH_Call ==
    /\ script = "drag"
    /\ dh_calls < MaxDragCalls
    /\ \E dt \in DragSteps, wb \in WindowBounds :
       \E g \in {None} \cup {Some(GazePoint(p[1] * CoordScale, p[2] * CoordScale,
                                            900, clock + dt)) : p \in DragGazes} :
           /\ clock' = clock + dt
           /\ dh_calls' = dh_calls + 1
           /\ dh_gaze' = g
           /\ dh_bounds' = Some(wb)
           /\ dh_dwell_start' = DwellStart(g, clock + dt)
           /\ DH_detect_window_drag(g, wb, clock + dt)
    /\ UNCHANGED DH_Others

\* WindowDragHandler.__init__, inside TauriGazeTracker.__init__.
DH_Constructed ==
    /\ dh_is_dragging = FALSE
    /\ dh_drag_start_time = 0
    /\ dh_drag_last_position = None
    /\ dh_last_stable_time = 0
    /\ dh_result = None
    /\ dh_gaze = None
    /\ dh_bounds = None
    /\ dh_calls = 0
    /\ dh_dwell_start = None

DH_Init ==
    /\ script = "drag"
    /\ clock = 1
    /\ DH_Constructed
    /\ TG_Constructed
    /\ ML_Idle
    /\ APP_Idle
    /\ MS_Idle
    /\ WT_Idle
    /\ MM_Idle
    /\ RT_Idle

DH_Next == DH_Call \/ TG_pause_for_drag \/ TG_resume_after_drag

SpecDrag == DH_Init /\ [][DH_Next]_vars

\* C10: a detect_window_drag call made while is_dragging is False, with a gaze
\* point whose y lies in the titlebar strip of window_bounds (30 px from its
\* top), leaves is_dragging True and returns True.
C10_TitlebarGazeStartsDrag ==
    [][(/\ dh_calls' = dh_calls + 1
        /\ ~dh_is_dragging
        /\ dh_gaze' /= None
        /\ dh_bounds'[1].y * CoordScale <= dh_gaze'[1].y
        /\ dh_gaze'[1].y <= (dh_bounds'[1].y + 30) * CoordScale)
       => (dh_is_dragging' /\ dh_result' = Some(TRUE))]_vars

\* A call has just started a drag from a gaze point on the lower edge of the
\* strip.
C10_Witness ==
    /\ dh_calls >= 1
    /\ dh_gaze /= None
    /\ dh_gaze[1].y = (dh_bounds[1].y + 30) * CoordScale
    /\ dh_drag_start_time = clock
    /\ dh_is_dragging
    /\ dh_result = Some(TRUE)

\* C11: a detect_window_drag call made during a drag ends the drag and
\* returns False exactly when it finds the gaze within 10 px of the recorded
\* position and the calls that found it there, one after the other, span
\* more than 0.5 s.
C11_DragEndsAfterDwellOnly ==
    [][(dh_calls' = dh_calls + 1 /\ dh_is_dragging) =>
           LET dwelt ==
                   /\ dh_gaze' /= None
                   /\ dh_drag_last_position /= None
                   /\ Abs(dh_gaze'[1].x - dh_drag_last_position[1][1])
                          < 10 * CoordScale
                   /\ Abs(dh_gaze'[1].y - dh_drag_last_position[1][2])
                          < 10 * CoordScale
                   /\ dh_dwell_start /= None
                   /\ clock' - dh_dwell_start[1] > TicksPerSecond \div 2
           IN  /\ dwelt => (~dh_is_dragging' /\ dh_result' = Some(FALSE))
               /\ ~dwelt => (dh_is_dragging' /\ dh_result' = Some(TRUE))]_vars

\* A drag has just ended on a call that found the gaze at the recorded
\* position more than 0.5 s after the first call that found it there.
C11_Witness ==
    /\ dh_calls >= 3
    /\ dh_gaze /= None
    /\ dh_drag_last_position /= None
    /\ ~dh_is_dragging
    /\ dh_result = Some(FALSE)
    /\ dh_last_stable_time = 0
    /\ clock - dh_drag_start_time > TicksPerSecond \div 2

\* =========================================================================
\* Least squares (np.linalg.lstsq, np.polyfit)
\* =========================================================================
\* Resolution of the coordinates a fit is computed on, of the coefficients
\* it returns, and the largest magnitude a product may have.
FitScale == 4
TScale == 100
SafeInt == 1000000000

\* r * scale / den (0 <= r < den) rounded; operands too large for the
\* product lose their low bits first, as a float mantissa does.
RECURSIVE ScaledFrac(_, _, _)
ScaledFrac(r, den, scale) ==
    IF r <= SafeInt \div (2 * scale) \/ den < 2
    THEN RoundDiv(r * scale, den)
    ELSE ScaledFrac(r \div 2, den \div 2, scale)

\* num * scale / den (den > 0) rounded: the whole part of num / den, then
\* the fraction.
ScaledDiv(num, den, scale) ==
    (num \div den) * scale + ScaledFrac(num % den, den, scale)

Det3(a, b, c, d, e, f, g, h, i) ==
    a * (e * i - f * h) - b * (d * i - f * g) + c * (d * h - e * g)

Dot3(u, v) == u[1] * v[1] + u[2] * v[2] + u[3] * v[3]

\* One column of np.linalg.lstsq(A, B, rcond=None)[0] for the rows
\* A[i] = (G[i][1], G[i][2], 1) and the right-hand sides S[i], coordinates in
\* units of 1/FitScale: the least-squares solution, and the one of minimum
\* norm when the rows do not determine it.  Coefficients in units of 1/TScale.
Lstsq(G, S) ==
    LET n == Len(G)
        I == 1..n
        F == FitScale
        Sxx == SumSeq([i \in I |-> G[i][1] * G[i][1]])
        Sxy == SumSeq([i \in I |-> G[i][1] * G[i][2]])
        Syy == SumSeq([i \in I |-> G[i][2] * G[i][2]])
        Sx == SumSeq([i \in I |-> G[i][1]])
        Sy == SumSeq([i \in I |-> G[i][2]])
        Sxs == SumSeq([i \in I |-> G[i][1] * S[i]])
        Sys == SumSeq([i \in I |-> G[i][2] * S[i]])
        Ss == SumSeq([i \in I |-> S[i]])
        \* normal equations (A^T A) w = A^T s, the third column of A being F
        det == Det3(Sxx, Sxy, F * Sx,  Sxy, Syy, F * Sy,  F * Sx, F * Sy, n * F * F)
        na == Det3(Sxs, Sxy, F * Sx,  Sys, Syy, F * Sy,  F * Ss, F * Sy, n * F * F)
        nb == Det3(Sxx, Sxs, F * Sx,  Sxy, Sys, F * Sy,  F * Sx, F * Ss, n * F * F)
        nc == Det3(Sxx, Sxy, Sxs,  Sxy, Syy, Sys,  F * Sx, F * Sy, F * Ss)
        same == \A i \in I : G[i] = G[1]
        \* rank 1: every row is u; w = u * mean(s) / (u . u)
        u == <<G[1][1], G[1][2], F>>
        \* rank 2: the points lie on a line through G[1] and G[j]; z spans the
        \* null space of A, w0 is the solution with one coefficient at 0
        j == CHOOSE k \in I : G[k] /= G[1] /\ \A m \in 1..(k - 1) : G[m] = G[1]
        z == <<F * (G[1][2] - G[j][2]), F * (G[j][1] - G[1][1]),
               G[1][1] * G[j][2] - G[j][1] * G[1][2]>>
        byX == G[1][1] /= G[j][1]
        Dx == n * Sxx - Sx * Sx
        Dy == n * Syy - Sy * Sy
        w0 == IF byX
              THEN <<ScaledDiv(n * Sxs - Sx * Ss, Dx, TScale), 0,
                     ScaledDiv(Sxx * Ss - Sx * Sxs, F * Dx, TScale)>>
              ELSE <<0, ScaledDiv(n * Sys - Sy * Ss, Dy, TScale),
                     ScaledDiv(Syy * Ss - Sy * Sys, F * Dy, TScale)>>
        proj == Dot3(w0, z)
    IN  IF det /= 0
        THEN <<ScaledDiv(na, det, TScale), ScaledDiv(nb, det, TScale),
               ScaledDiv(nc, det, TScale)>>
        ELSE IF same
        THEN [k \in 1..3 |-> ScaledDiv(u[k] * Ss, n * Dot3(u, u), TScale)]
        ELSE [k \in 1..3 |-> w0[k] - RoundDiv(proj * z[k], Dot3(z, z))]

\* =========================================================================
\* GazeTrackerApplication
\* =========================================================================
\* Calls a run makes on the tracker.
MaxAppCalls == 6

\* self.gaze_history = deque(maxlen=5)
APP_HistoryLen == 5

\* Rows 0 and 1 of np.eye(3), in units of 1/TScale.
APP_Identity == <<<<TScale, 0, 0>>, <<0, TScale, 0>>>>

\* calculate_confidence: 0.8, times 0.7 when an iris ring is incomplete,
\* plus the noise np.random.normal draws, clamped to [0, 1].
APP_calculate_confidence(n, noise) ==
    LET left_iris == Cardinality({idx \in LEFT_IRIS : idx < n})
        right_iris == Cardinality({idx \in RIGHT_IRIS : idx < n})
        quality == IF left_iris < 5 \/ right_iris < 5
                   THEN RoundDiv(800 * 7, 10) ELSE 800
        stability == IF n < 468 THEN RoundDiv(quality * 5, 10) ELSE quality
    IN  Clamp(0, stability + noise, 1000)

\* apply_calibration: calibration_transform @ (x, y, 1); the third row of
\* the matrix stays (0, 0, 1), so the division is by 1.
APP_apply_calibration(transform, x, y) ==
    [k \in 1..2 |-> RoundDiv(transform[k][1] * x, TScale)
                    + RoundDiv(transform[k][2] * y, TScale)
                    + RoundDiv(transform[k][3] * NormScale, TScale)]

\* The normalized coordinate v as an absolute one on the virtual desktop.
APP_absolute(v, origin, extent) ==
    origin * CoordScale + ScaledDiv(v, NormScale, extent * CoordScale)

\* GazeTrackerApplication.estimate_gaze on n landmarks whose iris points
\* average to iris: None, or (abs_x, abs_y, confidence).  The fields raw_x
\* and raw_y are not in the code: they are what abs_x and abs_y are without
\* apply_calibration.
APP_estimate_gaze(mesh, transform, is_calibrated, n, iris, noise) ==
    LET left_iris == Cardinality({idx \in LEFT_IRIS : idx < n})
        right_iris == Cardinality({idx \in RIGHT_IRIS : idx < n})
        screen_x == Clamp(0, RoundDiv((NormScale - iris[1]) * 20, 10)
                             - RoundDiv((20 - 10) * NormScale, 20), NormScale)
        screen_y == Clamp(0, RoundDiv(iris[2] * 18, 10)
                             - RoundDiv((18 - 10) * NormScale, 20), NormScale)
        calibrated == IF is_calibrated
                      THEN APP_apply_calibration(transform, screen_x, screen_y)
                      ELSE <<screen_x, screen_y>>
    IN  IF n < 468 \/ left_iris < 3 \/ right_iris < 3
        THEN None
        ELSE Some([x |-> APP_absolute(calibrated[1], mesh.virtual_left,
                                      mesh.virtual_width),
                   y |-> APP_absolute(calibrated[2], mesh.virtual_top,
                                      mesh.virtual_height),
                   confidence |-> APP_calculate_confidence(n, noise),
                   raw_x |-> APP_absolute(screen_x, mesh.virtual_left,
                                          mesh.virtual_width),
                   raw_y |-> APP_absolute(screen_y, mesh.virtual_top,
                                          mesh.virtual_height)])

\* The moving average of get_gaze_data over the history the estimate was
\* appended to: x, y and the confidence are averaged.
APP_average(history, newest, now) ==
    LET n == Len(history)
        Mean(f(_)) == RoundDiv(SumSeq([i \in 1..n |-> f(history[i])]), n)
        X(g) == g.x
        Y(g) == g.y
        Conf(g) == g.confidence
        RawX(g) == g.raw_x
        RawY(g) == g.raw_y
    IN  IF n >= 2
        THEN [x |-> Mean(X), y |-> Mean(Y), confidence |-> Mean(Conf),
              timestamp |-> now, raw_x |-> Mean(RawX), raw_y |-> Mean(RawY)]
        ELSE [x |-> newest.x, y |-> newest.y, confidence |-> newest.confidence,
              timestamp |-> now, raw_x |-> newest.raw_x, raw_y |-> newest.raw_y]

\* What the camera and the face mesh give for one frame: whether a face is
\* found, the number of landmarks, the mean iris position, the noise of the
\* confidence (units of 1/1000).
APP_Frames ==
    {[face |-> TRUE, n |-> 478,
      iris |-> <<(5 * NormScale) \div 8, (13 * NormScale) \div 36>>, noise |-> 0],
     [face |-> TRUE, n |-> 476,
      iris |-> <<(3 * NormScale) \div 8, (13 * NormScale) \div 36>>, noise |-> -60],
     [face |-> TRUE, n |-> 476,
      iris |-> <<NormScale \div 2, (23 * NormScale) \div 36>>, noise |-> 0],
     [face |-> FALSE, n |-> 0, iris |-> <<0, 0>>, noise |-> 0]}

\* GazeTrackerApplication.get_gaze_data on a frame read from the camera:
\* the estimate, the history and the MLGazeData returned (or None).
APP_get_gaze_data(frame, now) ==
    LET gaze_result == IF frame.face
                       THEN APP_estimate_gaze(app_mesh, app_calibration_transform,
                                              app_is_calibrated, frame.n,
                                              frame.iris, frame.noise)
                       ELSE None
        history == IF gaze_result /= None
                   THEN DequeAppend(app_gaze_history, gaze_result[1], APP_HistoryLen)
                   ELSE app_gaze_history
    IN  [raw |-> gaze_result,
         history |-> history,
         data |-> IF gaze_result /= None
                  THEN Some(APP_average(history, gaze_result[1], now))
                  ELSE None]

\* The reference points the host asks the user to look at, one after the
\* other: the corners of the inner half of the virtual desktop, its centre.
APP_Targets(mesh) ==
    LET X(k) == mesh.virtual_left + (k * mesh.virtual_width) \div 4
        Y(k) == mesh.virtual_top + (k * mesh.virtual_height) \div 4
    IN  <<<<X(1), Y(1)>>, <<X(3), Y(1)>>, <<X(3), Y(3)>>, <<X(1), Y(3)>>,
          <<X(2), Y(2)>>>>

\* GazeTrackerApplication.add_calibration_point(screen_x, screen_y).
APP_add_calibration_point(screen_x, screen_y, frame) ==
    LET now == clock + 1
        got == APP_get_gaze_data(frame, now)
        accepted == got.data /= None /\ got.data[1].confidence > 500
    IN  /\ clock' = now
        /\ app_raw_gaze' = got.raw
        /\ app_gaze_history' = got.history
        /\ app_gaze_data' = got.data
        /\ app_calibration_points' =
               IF accepted
               THEN Append(app_calibration_points,
                           [screen_x |-> screen_x, screen_y |-> screen_y,
                            gaze_x |-> got.data[1].x, gaze_y |-> got.data[1].y,
                            confidence |-> got.data[1].confidence,
                            timestamp |-> now,
                            raw_x |-> got.data[1].raw_x,
                            raw_y |-> got.data[1].raw_y])
               ELSE app_calibration_points
        /\ app_result' = Some(accepted)
        /\ app_last_call' = "add_calibration_point"
        /\ app_calls' = app_calls + 1
        /\ UNCHANGED <<app_host, app_exited, app_mesh, app_calibration_transform,
                       app_is_calibrated>>
        /\ UNCHANGED APP_Others

\* The affine transformation finish_calibration fits: gaze and screen
\* coordinates divided by the size of the virtual desktop, one lstsq column
\* for each screen axis.
APP_fit(mesh, points) ==
    LET I == 1..Len(points)
        G == [i \in I |->
                 <<RoundDiv(points[i].gaze_x * FitScale,
                            mesh.virtual_width * CoordScale),
                   RoundDiv(points[i].gaze_y * FitScale,
                            mesh.virtual_height * CoordScale)>>]
        SX == [i \in I |-> RoundDiv(points[i].screen_x * FitScale,
                                    mesh.virtual_width)]
        SY == [i \in I |-> RoundDiv(points[i].screen_y * FitScale,
                                    mesh.virtual_height)]
    IN  <<Lstsq(G, SX), Lstsq(G, SY)>>

\* finish_calibration fits no fewer than four points.
APP_too_few_Three(points) == Len(points) < 3

\* if len(self.calibration_points) < 4: return False
APP_too_few(points) == Len(points) < 4

\* GazeTrackerApplication.finish_calibration; main leaves its command loop
\* when it succeeds.
APP_finish_calibration ==
    LET enough == ~APP_too_few(app_calibration_points)
    IN  /\ clock' = clock + 1
        /\ app_calibration_transform' =
               IF enough THEN APP_fit(app_mesh, app_calibration_points)
               ELSE app_calibration_transform
        /\ app_is_calibrated' = (enough \/ app_is_calibrated)
        /\ app_result' = Some(enough)
        /\ app_exited' = (app_host = "calibrate" /\ enough)
        /\ app_last_call' = "finish_calibration"
        /\ app_calls' = app_calls + 1
        /\ UNCHANGED <<app_host, app_mesh, app_gaze_history,
                       app_calibration_points, app_raw_gaze, app_gaze_data>>
        /\ UNCHANGED APP_Others

\* One iteration of run_tracking_loop: get_gaze_data, printed when not None.
APP_run_tracking_loop(frame) ==
    LET now == clock + 1
        got == APP_get_gaze_data(frame, now)
    IN  /\ clock' = now
        /\ app_raw_gaze' = got.raw
        /\ app_gaze_history' = got.history
        /\ app_gaze_data' = got.data
        /\ app_last_call' = "get_gaze_data"
        /\ app_calls' = app_calls + 1
        /\ UNCHANGED <<app_host, app_exited, app_mesh, app_calibration_points,
                       app_calibration_transform, app_is_calibrated, app_result>>
        /\ UNCHANGED APP_Others

\* Who drives the tracker and on which monitors: main in calibration mode
\* (commands on stdin, until a fit succeeds), main in tracking mode, or a
\* program that calls the methods of the class itself.
APP_Configs ==
    {[host |-> "calibrate", monitors |-> <<Monitor(0, 0, 1920, 1080, TRUE)>>],
     [host |-> "track", monitors |-> <<Monitor(0, 0, 1920, 1080, TRUE)>>],
     [host |-> "caller", monitors |-> <<Monitor(0, 0, 1920, 1080, TRUE)>>],
     [host |-> "caller", monitors |-> <<Monitor(-2560, 0, 2560, 1440, FALSE),
                                        Monitor(0, 0, 1920, 1080, TRUE)>>]}

\* GazeTrackerApplication.__init__
APP_Constructed ==
    /\ \E c \in APP_Configs :
           /\ app_host = c.host
           /\ app_mesh = MeshOf(c.monitors)
    /\ app_exited = FALSE
    /\ app_gaze_history = << >>
    /\ app_calibration_points = << >>
    /\ app_calibration_transform = APP_Identity
    /\ app_is_calibrated = FALSE
    /\ app_raw_gaze = None
    /\ app_gaze_data = None
    /\ app_result = None
    /\ app_last_call = "none"
    /\ app_calls = 0

APP_Init ==
    /\ script = "app"
    /\ clock = 1
    /\ APP_Constructed
    /\ ML_Idle
    /\ TG_Idle
    /\ DH_Idle
    /\ MS_Idle
    /\ WT_Idle
    /\ MM_Idle
    /\ RT_Idle

\* A CALIBRATE: line on stdin, or a call of add_calibration_point.
APP_Add ==
    /\ script = "app"
    /\ app_host \in {"calibrate", "caller"}
    /\ ~app_exited
    /\ app_calls < MaxAppCalls
    /\ \E frame \in APP_Frames :
           LET targets == APP_Targets(app_mesh)
               t == targets[(Len(app_calibration_points) % Len(targets)) + 1]
           IN  APP_add_calibration_point(t[1], t[2], frame)

\* A FINISH_CALIBRATION line on stdin, or a call of finish_calibration.
APP_Finish ==
    /\ script = "app"
    /\ app_host \in {"calibrate", "caller"}
    /\ ~app_exited
    /\ app_calls < MaxAppCalls
    /\ APP_finish_calibration

APP_Track ==
    /\ script = "app"
    /\ app_host = "track"
    /\ app_calls < MaxAppCalls
    /\ \E frame \in APP_Frames : APP_run_tracking_loop(frame)

APP_Next == APP_Add \/ APP_Finish \/ APP_Track

SpecApp == APP_Init /\ [][APP_Next]_vars

\* C2 (as stated): in each variant that smooths, the smoothed result carries
\* the confidence and the timestamp of the newest raw point.  The raw
\* estimate of GazeTrackerApplication has no timestamp of its own, so for it
\* the statement is about the confidence.
C2_SmoothedCarriesNewestConfidence ==
    /\ (ml_gaze_point /= None /\ ml_raw_gaze /= None) =>
           /\ ml_gaze_point[1].confidence = ml_raw_gaze[1].confidence
           /\ ml_gaze_point[1].timestamp = ml_raw_gaze[1].timestamp
    /\ (tg_gaze_point /= None /\ tg_raw_gaze /= None) =>
           /\ tg_gaze_point[1].confidence = tg_raw_gaze[1].confidence
           /\ tg_gaze_point[1].timestamp = tg_raw_gaze[1].timestamp
    /\ (app_gaze_data /= None /\ app_raw_gaze /= None) =>
           app_gaze_data[1].confidence = app_raw_gaze[1].confidence

\* C6 (as stated): add_calibration_point stores a point and returns True
\* when the confidence of the current gaze is 0.5 or more, and otherwise
\* returns False and leaves calibration_points alone.
C6_AcceptsAtOrAboveFloor ==
    [][(app_last_call' = "add_calibration_point" /\ app_calls' = app_calls + 1) =>
           IF app_gaze_data' /= None /\ app_gaze_data'[1].confidence >= 500
           THEN /\ app_result' = Some(TRUE)
                /\ Len(app_calibration_points') = Len(app_calibration_points) + 1
           ELSE /\ app_result' = Some(FALSE)
                /\ app_calibration_points' = app_calibration_points]_vars

\* C7 (as stated): the gaze_x, gaze_y of every stored CalibrationPoint are
\* the estimate without a calibration transform applied.
C7_StoredPointsAreRaw ==
    \A i \in 1..Len(app_calibration_points) :
        /\ app_calibration_points[i].gaze_x = app_calibration_points[i].raw_x
        /\ app_calibration_points[i].gaze_y = app_calibration_points[i].raw_y

\* =========================================================================
\* ImprovedEyeTracker (multi-screen-eye-tracking.py)
\* =========================================================================
\* Handlers a run executes.
MaxMultiSteps == 5

\* Resolution of the calibration accuracy, in fractions of a pixel.
AccScale == 10

\* self.gaze_history = deque(maxlen=10)
MS_HistoryLen == 10

\* self.smoothing_factor = 0.5, in tenths.
MS_smoothing_factor == 5

\* Calibration points a fit needs.
MS_MinPoints == 10

\* int(): num / den (den > 0) truncated towards zero.
Trunc(num, den) == IF num >= 0 THEN num \div den ELSE -((-num) \div den)

\* The largest r in lo..hi with r * r <= v.
RECURSIVE ISqrtBetween(_, _, _)
ISqrtBetween(v, lo, hi) ==
    IF lo >= hi
    THEN lo
    ELSE LET mid == (lo + hi + 1) \div 2
         IN  IF mid * mid <= v
             THEN ISqrtBetween(v, mid, hi)
             ELSE ISqrtBetween(v, lo, mid - 1)

\* math.sqrt of v, rounded down.
ISqrt(v) == ISqrtBetween(v, 0, Min(v, 46340))

\* ImprovedEyeTracker.get_screen_info: the monitors screeninfo lists, sorted
\* by (y, x).
MS_get_screen_info(monitors) ==
    SortSeq([i \in 1..Len(monitors) |->
                [id |-> i - 1,
                 x |-> monitors[i].x, y |-> monitors[i].y,
                 width |-> monitors[i].width, height |-> monitors[i].height,
                 right_edge |-> monitors[i].x + monitors[i].width,
                 bottom_edge |-> monitors[i].y + monitors[i].height]],
            LAMBDA a, b : a.y < b.y \/ (a.y = b.y /\ a.x < b.x))

\* ImprovedEyeTracker.create_virtual_desktop: without screens the record has
\* no max_x and no max_y.
MS_create_virtual_desktop(screens) ==
    LET idx == 1..Len(screens)
        min_x == SetMin({screens[i].x : i \in idx})
        min_y == SetMin({screens[i].y : i \in idx})
        max_x == SetMax({screens[i].right_edge : i \in idx})
        max_y == SetMax({screens[i].bottom_edge : i \in idx})
    IN  IF screens = << >>
        THEN [width |-> 1920, height |-> 1080, min_x |-> 0, min_y |-> 0]
        ELSE [width |-> max_x - min_x, height |-> max_y - min_y,
              min_x |-> min_x, min_y |-> min_y,
              max_x |-> max_x, max_y |-> max_y]

\* ImprovedEyeTracker.simple_virtual_mapping of the gaze vector gaze (units
\* of 1/FitScale): centre + gaze * scale, clamped, truncated.
MS_simple_virtual_mapping(vd, gaze) ==
    LET center_x == vd.min_x + vd.width \div 2
        center_y == vd.min_y + vd.height \div 2
        base_scale == Min(vd.width, vd.height)
        unit == 10 * FitScale
        virtual_x == center_x * unit + gaze[1] * base_scale * 8
        virtual_y == center_y * unit + gaze[2] * base_scale * 6
    IN  <<Trunc(Clamp(vd.min_x * unit, virtual_x, (vd.max_x - 1) * unit), unit),
          Trunc(Clamp(vd.min_y * unit, virtual_y, (vd.max_y - 1) * unit), unit)>>

\* np.polyval(poly, g / FitScale) for poly = (a, b, c), highest power first,
\* coefficients and result in units of 1/TScale.
PolyVal(poly, g) ==
    RoundDiv(poly[1] * g * g, FitScale * FitScale)
        + RoundDiv(poly[2] * g, FitScale) + poly[3]

\* ImprovedEyeTracker.calibrated_virtual_mapping with the calibration data
\* (None is the empty dict); the data every fit of this program stores and
\* loads have the polynomial keys.
MS_calibrated_virtual_mapping(vd, data, gaze) ==
    IF data = None
    THEN MS_simple_virtual_mapping(vd, gaze)
    ELSE LET virtual_x == PolyVal(data[1].polynomial_x, gaze[1])
             virtual_y == PolyVal(data[1].polynomial_y, gaze[2])
         IN  <<Trunc(Clamp(vd.min_x * TScale, virtual_x,
                           (vd.max_x - 1) * TScale), TScale),
               Trunc(Clamp(vd.min_y * TScale, virtual_y,
                           (vd.max_y - 1) * TScale), TScale)>>

\* The calibrated mapping whenever calibration is enabled.
MS_map_gaze_to_virtual_desktop_Enabled(vd, data, is_calibrated, enabled, gaze) ==
    IF enabled
    THEN MS_calibrated_virtual_mapping(vd, data, gaze)
    ELSE MS_simple_virtual_mapping(vd, gaze)

\* ImprovedEyeTracker.map_gaze_to_virtual_desktop
MS_map_gaze_to_virtual_desktop(vd, data, is_calibrated, enabled, gaze) ==
    IF is_calibrated /\ enabled
    THEN MS_calibrated_virtual_mapping(vd, data, gaze)
    ELSE MS_simple_virtual_mapping(vd, gaze)

\* np.exp(np.linspace(-2, 0, n)): entry i (1..n) is exp(-2 + 2(i-1)/(n-1)).
MS_ExpWeights(n) ==
    [i \in 1..n |-> IF n = 1 THEN Exp(-2, 1) ELSE Exp(2 * (i - n), n - 1)]

MS_SmoothingWeights == [n \in 1..MS_HistoryLen |-> Normalize(MS_ExpWeights(n))]

\* ImprovedEyeTracker.smooth_gaze on the history new_gaze was appended to.
MS_smooth_gaze(history, new_gaze) ==
    LET n == Len(history)
        weights == MS_SmoothingWeights[n]
        avg_x == WeightedSum(weights, [i \in 1..n |-> history[i][1] * CoordScale])
        avg_y == WeightedSum(weights, [i \in 1..n |-> history[i][2] * CoordScale])
        sf == MS_smoothing_factor
    IN  IF n = 0
        THEN new_gaze
        ELSE <<Trunc(new_gaze[1] * CoordScale * (10 - sf) + avg_x * sf,
                     10 * CoordScale),
               Trunc(new_gaze[2] * CoordScale * (10 - sf) + avg_y * sf,
                     10 * CoordScale)>>

\* np.polyfit(X, V, 2), X in units of 1/FitScale: the least-squares
\* polynomial (a, b, c), highest power first, in units of 1/TScale.
PolyFit2(X, V) ==
    LET n == Len(X)
        I == 1..n
        F == FitScale
        S1 == SumSeq([i \in I |-> X[i]])
        S2 == SumSeq([i \in I |-> X[i] * X[i]])
        S3 == SumSeq([i \in I |-> X[i] * X[i] * X[i]])
        S4 == SumSeq([i \in I |-> X[i] * X[i] * X[i] * X[i]])
        R0 == SumSeq([i \in I |-> V[i]])
        R1 == SumSeq([i \in I |-> X[i] * V[i]])
        R2 == SumSeq([i \in I |-> X[i] * X[i] * V[i]])
        det == Det3(S4, S3, S2,  S3, S2, S1,  S2, S1, n)
        na == Det3(R2, S3, S2,  R1, S2, S1,  R0, S1, n)
        nb == Det3(S4, R2, S2,  S3, R1, S1,  S2, R0, n)
        nc == Det3(S4, S3, R2,  S3, S2, R1,  S2, S1, R0)
    IN  <<ScaledDiv(na, det, TScale * F * F), ScaledDiv(nb, det, TScale * F),
          ScaledDiv(nc, det, TScale)>>

\* ImprovedEyeTracker.calculate_calibration_accuracy with the calibration
\* data in force when it is called: the mean distance between the mapping
\* of each point's gaze and the point, in units of 1/AccScale pixel.
MS_calculate_calibration_accuracy(vd, data, points) ==
    LET n == Len(points)
        predicted(p) == IF data /= None
                        THEN MS_calibrated_virtual_mapping(vd, data, p.gaze)
                        ELSE MS_simple_virtual_mapping(vd, p.gaze)
        error(p) == LET q == predicted(p)
                        dx == q[1] - p.virtual[1]
                        dy == q[2] - p.virtual[2]
                    IN  ISqrt((dx * dx + dy * dy) * AccScale * AccScale)
    IN  IF n = 0 THEN 0
        ELSE RoundDiv(SumSeq([i \in 1..n |-> error(points[i])]), n)

\* ImprovedEyeTracker.calculate_enhanced_calibration: what it returns and
\* the calibration data it leaves.  The dictionary is built, the accuracy
\* with it, before self.calibration_data is assigned.
MS_calculate_enhanced_calibration(vd, data, points) ==
    LET I == 1..Len(points)
        poly_x == PolyFit2([i \in I |-> points[i].gaze[1]],
                           [i \in I |-> points[i].virtual[1]])
        poly_y == PolyFit2([i \in I |-> points[i].gaze[2]],
                           [i \in I |-> points[i].virtual[2]])
    IN  IF Len(points) < MS_MinPoints
        THEN [ok |-> FALSE, data |-> data]
        ELSE [ok |-> TRUE,
              data |-> Some([polynomial_x |-> poly_x,
                             polynomial_y |-> poly_y,
                             virtual_desktop |-> vd,
                             calibration_accuracy |->
                                 MS_calculate_calibration_accuracy(vd, data, points),
                             calibration_method |-> "polynomial"])]

\* ImprovedEyeTracker.load_calibration: the file's data are kept whatever
\* they say; is_calibrated needs the saved width and height to match.
MS_load_calibration(vd, file) ==
    [calibration_data |-> file,
     is_calibrated |-> /\ file /= None
                       /\ file[1].virtual_desktop.width = vd.width
                       /\ file[1].virtual_desktop.height = vd.height]

\* The 17 points start_multi_monitor_calibration shows on one screen.
MS_points_per_monitor(screen) ==
    LET margin == 50
        w == screen.width
        h == screen.height
        x_base == screen.x
        y_base == screen.y
    IN  <<<<x_base + margin, y_base + margin>>,
          <<x_base + w - margin, y_base + margin>>,
          <<x_base + margin, y_base + h - margin>>,
          <<x_base + w - margin, y_base + h - margin>>,
          <<x_base + w \div 4, y_base + margin>>,
          <<x_base + (3 * w) \div 4, y_base + margin>>,
          <<x_base + margin, y_base + h \div 4>>,
          <<x_base + w - margin, y_base + h \div 4>>,
          <<x_base + margin, y_base + (3 * h) \div 4>>,
          <<x_base + w - margin, y_base + (3 * h) \div 4>>,
          <<x_base + w \div 4, y_base + h - margin>>,
          <<x_base + (3 * w) \div 4, y_base + h - margin>>,
          <<x_base + w \div 2, y_base + margin>>,
          <<x_base + w \div 2, y_base + h - margin>>,
          <<x_base + margin, y_base + h \div 2>>,
          <<x_base + w - margin, y_base + h \div 2>>,
          <<x_base + w \div 2, y_base + h \div 2>>>>

\* all_calibration_points: the points of every screen, screen after screen.
RECURSIVE MS_all_calibration_points(_)
MS_all_calibration_points(screens) ==
    IF screens = << >>
    THEN << >>
    ELSE MS_points_per_monitor(Head(screens))
             \o MS_all_calibration_points(Tail(screens))

\* The gaze vector calculate_gaze_vector gives while the user looks at the
\* point: proportional to the point's offset from the centre of the
\* desktop, shifted by the user's head pose.
MS_Poses == {0, 1}

MS_reading(vd, point, pose) ==
    <<RoundDiv((point[1] - (vd.min_x + vd.width \div 2)) * FitScale, vd.width)
          + pose,
      RoundDiv((point[2] - (vd.min_y + vd.height \div 2)) * FitScale, vd.height)
          - pose>>

\* ImprovedEyeTracker.show_calibration_point: three readings of
\* current_raw_gaze, which is the gaze vector of the user looking at the
\* point, are averaged and stored with the point.
MS_show_calibration_point(points, vd, virtual_point, pose) ==
    LET stable_readings == [k \in 1..3 |-> MS_reading(vd, virtual_point, pose)]
        avg_gaze_x == SumSeq([k \in 1..3 |-> stable_readings[k][1]]) \div 3
        avg_gaze_y == SumSeq([k \in 1..3 |-> stable_readings[k][2]]) \div 3
    IN  Append(points, [virtual |-> virtual_point,
                        gaze |-> <<avg_gaze_x, avg_gaze_y>>])

\* for point in all_calibration_points: self.show_calibration_point(point)
RECURSIVE MS_show_all(_, _, _, _)
MS_show_all(points, vd, targets, pose) ==
    IF targets = << >>
    THEN points
    ELSE MS_show_all(MS_show_calibration_point(points, vd, Head(targets), pose),
                     vd, Tail(targets), pose)

\* What the camera and the landmark predictor give for one frame: whether
\* both pupils are found, and the gaze vector.
MS_Frames ==
    {[eyes |-> FALSE, gaze |-> <<0, 0>>],
     [eyes |-> TRUE, gaze |-> <<-1, 1>>],
     [eyes |-> TRUE, gaze |-> <<2, -1>>]}

\* A calibration file an earlier run saved for a desktop of the given size.
MS_StoredCalibration(width, height) ==
    Some([polynomial_x |-> <<0, 1536 * TScale, 960 * TScale>>,
          polynomial_y |-> <<0, 864 * TScale, 540 * TScale>>,
          virtual_desktop |-> [width |-> width, height |-> height,
                               min_x |-> 0, min_y |-> 0,
                               max_x |-> width, max_y |-> height],
          calibration_accuracy |-> 25 * AccScale,
          calibration_method |-> "polynomial"])

\* The monitors screeninfo lists and the calibration file found at start.
MS_Configs ==
    {[monitors |-> << >>, file |-> MS_StoredCalibration(1920, 1080)],
     [monitors |-> <<Monitor(0, 0, 1920, 1080, TRUE)>>, file |-> None],
     [monitors |-> <<Monitor(0, 0, 1920, 1080, TRUE)>>,
      file |-> MS_StoredCalibration(1920, 1080)],
     [monitors |-> <<Monitor(0, 0, 1920, 1080, TRUE)>>,
      file |-> MS_StoredCalibration(2560, 1080)],
     [monitors |-> <<Monitor(1280, 0, 1280, 720, FALSE),
                     Monitor(0, 0, 1280, 720, TRUE)>>,
      file |-> MS_StoredCalibration(2560, 1440)]}

\* ImprovedEyeTracker.__init__, which ends with load_calibration.
MS_Constructed ==
    /\ \E c \in MS_Configs :
           LET screens == MS_get_screen_info(c.monitors)
               vd == MS_create_virtual_desktop(screens)
               loaded == MS_load_calibration(vd, c.file)
           IN  /\ ms_screens = screens
               /\ ms_virtual_desktop = vd
               /\ ms_loaded = c.file
               /\ ms_saved = c.file
               /\ ms_calibration_data = loaded.calibration_data
               /\ ms_is_calibrated = loaded.is_calibrated
    /\ ms_camera = "stopped"
    /\ ms_gaze_history = << >>
    /\ ms_current_gaze = <<0, 0>>
    /\ ms_current_raw_gaze = <<0, 0>>
    /\ ms_mapped = None
    /\ ms_calibration_points = << >>
    /\ ms_calibration_enabled = FALSE
    /\ ms_result = None
    /\ ms_fits = 0
    /\ ms_last_call = "none"
    /\ ms_steps = 0

MS_Init ==
    /\ script = "multi"
    /\ clock = 1
    /\ MS_Constructed
    /\ ML_Idle
    /\ TG_Idle
    /\ DH_Idle
    /\ APP_Idle
    /\ WT_Idle
    /\ MM_Idle
    /\ RT_Idle

\* ImprovedEyeTrackerApp.start_tracking: the camera opens or does not.
MS_start_tracking ==
    /\ script = "multi"
    /\ ms_steps < MaxMultiSteps
    /\ ms_camera = "stopped"
    /\ \E opened \in BOOLEAN :
           ms_camera' = IF opened THEN "running" ELSE "stopped"
    /\ ms_last_call' = "start_tracking"
    /\ ms_steps' = ms_steps + 1
    /\ UNCHANGED <<clock, ms_screens, ms_virtual_desktop, ms_loaded, ms_saved,
                   ms_gaze_history, ms_current_gaze, ms_current_raw_gaze,
                   ms_mapped, ms_calibration_points, ms_calibration_data,
                   ms_is_calibrated, ms_calibration_enabled, ms_result, ms_fits>>
    /\ UNCHANGED MS_Others

\* One iteration of camera_loop: ImprovedEyeTracker.process_frame.  Without
\* screens the virtual desktop has no max_x, the mapping raises KeyError
\* after current_raw_gaze is set, and the camera thread ends.
MS_process_frame ==
    /\ script = "multi"
    /\ ms_steps < MaxMultiSteps
    /\ ms_camera = "running"
    /\ \E frame \in MS_Frames :
           LET mapped == MS_map_gaze_to_virtual_desktop(
                             ms_virtual_desktop, ms_calibration_data,
                             ms_is_calibrated, ms_calibration_enabled, frame.gaze)
               history == DequeAppend(ms_gaze_history, mapped, MS_HistoryLen)
           IN  IF ~frame.eyes
               THEN UNCHANGED <<ms_camera, ms_gaze_history, ms_current_gaze,
                                ms_current_raw_gaze, ms_mapped>>
               ELSE IF ms_screens = << >>
               THEN /\ ms_current_raw_gaze' = frame.gaze
                    /\ ms_camera' = "crashed"
                    /\ UNCHANGED <<ms_gaze_history, ms_current_gaze, ms_mapped>>
               ELSE /\ ms_current_raw_gaze' = frame.gaze
                    /\ ms_mapped' = Some([gaze |-> frame.gaze, virtual |-> mapped])
                    /\ ms_gaze_history' = history
                    /\ ms_current_gaze' = MS_smooth_gaze(history, mapped)
                    /\ UNCHANGED ms_camera
    /\ clock' = clock + 1
    /\ ms_last_call' = "process_frame"
    /\ ms_steps' = ms_steps + 1
    /\ UNCHANGED <<ms_screens, ms_virtual_desktop, ms_loaded, ms_saved,
                   ms_calibration_points, ms_calibration_data, ms_is_calibrated,
                   ms_calibration_enabled, ms_result, ms_fits>>
    /\ UNCHANGED MS_Others

\* ImprovedEyeTrackerApp.toggle_calibration: the check box was clicked.
MS_toggle_calibration ==
    /\ script = "multi"
    /\ ms_steps < MaxMultiSteps
    /\ ms_calibration_enabled' = ~ms_calibration_enabled
    /\ ms_last_call' = "toggle_calibration"
    /\ ms_steps' = ms_steps + 1
    /\ UNCHANGED <<clock, ms_screens, ms_virtual_desktop, ms_loaded, ms_saved,
                   ms_camera, ms_gaze_history, ms_current_gaze,
                   ms_current_raw_gaze, ms_mapped, ms_calibration_points,
                   ms_calibration_data, ms_is_calibrated, ms_result, ms_fits>>
    /\ UNCHANGED MS_Others

\* ImprovedEyeTrackerApp.run_calibration once tracking was started and the
\* question is answered yes: start_multi_monitor_calibration shows every
\* point, show_calibration_point waits for three readings of
\* current_raw_gaze at each, then calculate_enhanced_calibration fits and
\* save_calibration writes the file.  While a point waits the camera thread
\* processes a frame of the user looking at it.
MS_run_calibration ==
    /\ script = "multi"
    /\ ms_steps < MaxMultiSteps
    /\ ms_camera /= "stopped"
    /\ \E pose \in MS_Poses :
           LET vd == ms_virtual_desktop
               targets == MS_all_calibration_points(ms_screens)
               n == Len(targets)
               points == MS_show_all(<< >>, vd, targets, pose)
               readings == [i \in 1..n |-> MS_reading(vd, targets[i], pose)]
               mapped == [i \in 1..n |->
                             MS_map_gaze_to_virtual_desktop(
                                 vd, ms_calibration_data, ms_is_calibrated,
                                 ms_calibration_enabled, readings[i])]
               all == ms_gaze_history \o mapped
               history == SubSeq(all, Max(1, Len(all) - MS_HistoryLen + 1),
                                 Len(all))
               fit == MS_calculate_enhanced_calibration(vd, ms_calibration_data,
                                                        points)
           IN  /\ ms_calibration_points' = points
               /\ IF n = 0
                  THEN UNCHANGED <<ms_current_raw_gaze, ms_mapped,
                                   ms_gaze_history, ms_current_gaze>>
                  ELSE /\ ms_current_raw_gaze' = readings[n]
                       /\ ms_mapped' = Some([gaze |-> readings[n],
                                             virtual |-> mapped[n]])
                       /\ ms_gaze_history' = history
                       /\ ms_current_gaze' = MS_smooth_gaze(history, mapped[n])
               /\ ms_calibration_data' = fit.data
               /\ ms_saved' = IF fit.ok THEN fit.data ELSE ms_saved
               /\ ms_is_calibrated' = (fit.ok \/ ms_is_calibrated)
               /\ ms_result' = Some(fit.ok)
               /\ ms_fits' = IF fit.ok THEN ms_fits + 1 ELSE ms_fits
    /\ clock' = clock + 1
    /\ ms_last_call' = "run_calibration"
    /\ ms_steps' = ms_steps + 1
    /\ UNCHANGED <<ms_screens, ms_virtual_desktop, ms_loaded, ms_camera,
                   ms_calibration_enabled>>
    /\ UNCHANGED MS_Others

MS_Next ==
    \/ MS_start_tracking
    \/ MS_process_frame
    \/ MS_toggle_calibration
    \/ MS_run_calibration

SpecMulti == MS_Init /\ [][MS_Next]_vars

\* Both trackers that fit a calibration.
Calib_Init == APP_Init \/ MS_Init

Calib_Next == APP_Next \/ MS_Next

SpecCalib == Calib_Init /\ [][Calib_Next]_vars

\* C5: finish_calibration with fewer than 4 points and
\* calculate_enhanced_calibration with fewer than 10 points return False
\* and leave the calibration (transform or data) and is_calibrated as they
\* were.
C5_TooFewSamplesRefused ==
    [][/\ (/\ app_last_call' = "finish_calibration"
           /\ app_calls' = app_calls + 1
           /\ Len(app_calibration_points) < 4) =>
              /\ app_result' = Some(FALSE)
              /\ app_calibration_transform' = app_calibration_transform
              /\ app_is_calibrated' = app_is_calibrated
       /\ (/\ ms_last_call' = "run_calibration"
           /\ ms_steps' = ms_steps + 1
           /\ Len(ms_calibration_points') < 10) =>
              /\ ms_result' = Some(FALSE)
              /\ ms_calibration_data' = ms_calibration_data
              /\ ms_is_calibrated' = ms_is_calibrated]_vars

\* A fit was asked for with no point collected while a loaded calibration
\* was active: it was refused and the calibration is still active.
C5_Witness ==
    /\ ms_last_call = "run_calibration"
    /\ Len(ms_calibration_points) < 10
    /\ ms_result = Some(FALSE)
    /\ ms_is_calibrated
    /\ ms_calibration_data = ms_loaded

\* C8 (as stated): the calibration_accuracy stored with a fit is the mean
\* residual of that fit on its own calibration points.
C8_AccuracyOfTheNewFit ==
    ms_fits > 0 =>
        ms_calibration_data[1].calibration_accuracy =
            MS_calculate_calibration_accuracy(ms_virtual_desktop,
                                              ms_calibration_data,
                                              ms_calibration_points)

\* The calibration file found at start was saved for a desktop of another
\* width or height.
MismatchingFile ==
    /\ ms_loaded /= None
    /\ \/ ms_loaded[1].virtual_desktop.width /= ms_virtual_desktop.width
       \/ ms_loaded[1].virtual_desktop.height /= ms_virtual_desktop.height

\* C9: with a calibration file saved for a desktop of another size, and
\* until a fit succeeds, is_calibrated is False and
\* map_gaze_to_virtual_desktop returns what simple_virtual_mapping returns.
C9_MismatchingCalibrationNotApplied ==
    (script = "multi" /\ MismatchingFile /\ ms_fits = 0) =>
        /\ ~ms_is_calibrated
        /\ ms_mapped /= None =>
               ms_mapped[1].virtual =
                   MS_simple_virtual_mapping(ms_virtual_desktop,
                                             ms_mapped[1].gaze)

\* A frame was mapped with calibration enabled while the mismatching file's
\* data were still held, and the stored polynomial would have mapped it
\* elsewhere.
C9_Witness ==
    /\ script = "multi"
    /\ MismatchingFile
    /\ ms_fits = 0
    /\ ms_calibration_enabled
    /\ ms_last_call = "process_frame"
    /\ ms_mapped /= None
    /\ ms_calibration_data = ms_loaded
    /\ MS_calibrated_virtual_mapping(ms_virtual_desktop, ms_calibration_data,
                                     ms_mapped[1].gaze) /= ms_mapped[1].virtual

\* =========================================================================
\* RealtimeWhisperTranscriber (real-time-optimized-whisper-transcriber.py)
\* =========================================================================
\* audio_callback calls a run makes.
MaxCallbacks == 6

\* Buffers self.audio_queue holds: queue.Queue(maxsize=100), scaled down.
QueueMax == 2

\* Audio one processed chunk adds to audio_buffer, in half seconds.
ChunkSamples == 2

\* self.buffer_size (BUFFER_DURATION = 4.0 s), in half seconds of audio.
WT_buffer_size == 8

\* self.overlap_size (OVERLAP_DURATION = 1.0 s), in half seconds.
WT_overlap_size == 2

\* self.min_audio_samples (MIN_AUDIO_LENGTH = 1.5 s), in half seconds.
WT_min_audio_samples == 3

\* deque(maxlen=self.buffer_size * 2)
WT_buffer_maxlen == WT_buffer_size * 2

\* queue.Queue.put_nowait: the queue afterwards; raised is queue.Full.
WT_put_nowait(queue, item) ==
    IF Len(queue) >= QueueMax
    THEN [raised |-> TRUE, queue |-> queue]
    ELSE [raised |-> FALSE, queue |-> Append(queue, item)]

\* queue.Queue.get_nowait, and get(timeout=0.1) once its wait is over:
\* raised is queue.Empty.
WT_get_nowait(queue) ==
    IF queue = << >>
    THEN [raised |-> TRUE, item |-> 0, queue |-> queue]
    ELSE [raised |-> FALSE, item |-> Head(queue), queue |-> Tail(queue)]

\* A new thread whatever the earlier one does.
WT_may_start_Always(alive) == TRUE

\* processing_thread is None or not processing_thread.is_alive()
WT_may_start(alive) == alive = 0

\* The positions of process_audio_stream inside its loop.
WT_InLoop == {"test", "get", "extend", "trigger"}

\* RealtimeWhisperTranscriber.__init__
WT_Constructed ==
    /\ wt_main = "created"
    /\ wt_is_running = FALSE
    /\ wt_queue = << >>
    /\ wt_callbacks = 0
    /\ wt_cb_pc = "idle"
    /\ wt_loop_pc = "none"
    /\ wt_raw = 0
    /\ wt_audio_buffer = 0
    /\ wt_alive = 0
    /\ wt_proc_pc = "none"
    /\ wt_audio_data = 0
    /\ wt_to_remove = 0
    /\ wt_trigger = "none"
    /\ wt_first = 0
    /\ wt_window_end = 0
    /\ wt_outcome = "none"

WT_Init ==
    /\ script = "whisper"
    /\ clock = 1
    /\ WT_Constructed
    /\ ML_Idle
    /\ TG_Idle
    /\ DH_Idle
    /\ APP_Idle
    /\ MS_Idle
    /\ MM_Idle
    /\ RT_Idle

\* start_transcription up to its wait: without a device it returns; when
\* p.open raises, the finally block runs with no thread started; else the
\* stream calls audio_callback, is_running is set and the thread of
\* process_audio_stream starts.
WT_start_transcription ==
    /\ script = "whisper"
    /\ wt_main = "created"
    /\ \E outcome \in {"no_device", "open_failed", "opened"} :
           /\ wt_main' = CASE outcome = "no_device" -> "exited"
                           [] outcome = "open_failed" -> "stopped"
                           [] OTHER -> "listening"
           /\ wt_is_running' = (outcome = "opened")
           /\ wt_loop_pc' = IF outcome = "opened" THEN "test" ELSE "none"
    /\ UNCHANGED <<wt_queue, wt_callbacks, wt_cb_pc, wt_raw, wt_audio_buffer,
                   wt_alive, wt_proc_pc, wt_audio_data, wt_to_remove, wt_trigger,
                   wt_first, wt_window_end, wt_outcome>>
    /\ UNCHANGED WT_Others

\* audio_callback, first statement: put_nowait(in_data).  The buffers are
\* numbered in the order of the calls.
WT_audio_callback ==
    /\ script = "whisper"
    /\ wt_main \in {"listening", "stopping"}
    /\ wt_cb_pc = "idle"
    /\ wt_callbacks < MaxCallbacks
    /\ LET put == WT_put_nowait(wt_queue, wt_callbacks + 1)
       IN  /\ wt_queue' = put.queue
           /\ wt_cb_pc' = IF put.raised THEN "full" ELSE "idle"
    /\ wt_callbacks' = wt_callbacks + 1
    /\ UNCHANGED <<wt_main, wt_is_running, wt_loop_pc, wt_raw, wt_audio_buffer,
                   wt_alive, wt_proc_pc, wt_audio_data, wt_to_remove, wt_trigger,
                   wt_first, wt_window_end, wt_outcome>>
    /\ UNCHANGED WT_Others

\* audio_callback after queue.Full: get_nowait(); queue.Empty is passed
\* over and the callback returns.
WT_audio_callback_full ==
    /\ script = "whisper"
    /\ wt_cb_pc = "full"
    /\ LET got == WT_get_nowait(wt_queue)
       IN  /\ wt_queue' = got.queue
           /\ wt_cb_pc' = IF got.raised THEN "idle" ELSE "retry"
    /\ UNCHANGED <<wt_main, wt_is_running, wt_callbacks, wt_loop_pc, wt_raw,
                   wt_audio_buffer, wt_alive, wt_proc_pc, wt_audio_data,
                   wt_to_remove, wt_trigger,
                   wt_first, wt_window_end, wt_outcome>>
    /\ UNCHANGED WT_Others

\* audio_callback after get_nowait: put_nowait(in_data) again, and return.
WT_audio_callback_retry ==
    /\ script = "whisper"
    /\ wt_cb_pc = "retry"
    /\ wt_queue' = WT_put_nowait(wt_queue, wt_callbacks).queue
    /\ wt_cb_pc' = "idle"
    /\ UNCHANGED <<wt_main, wt_is_running, wt_callbacks, wt_loop_pc, wt_raw,
                   wt_audio_buffer, wt_alive, wt_proc_pc, wt_audio_data,
                   wt_to_remove, wt_trigger,
                   wt_first, wt_window_end, wt_outcome>>
    /\ UNCHANGED WT_Others

\* process_audio_stream: while self.is_running
WT_loop_test ==
    /\ script = "whisper"
    /\ wt_loop_pc = "test"
    /\ wt_loop_pc' = IF wt_is_running THEN "get" ELSE "exited"
    /\ UNCHANGED <<wt_main, wt_is_running, wt_queue, wt_callbacks, wt_cb_pc,
                   wt_raw, wt_audio_buffer, wt_alive, wt_proc_pc, wt_audio_data,
                   wt_to_remove, wt_trigger,
                   wt_first, wt_window_end, wt_outcome>>
    /\ UNCHANGED WT_Others

\* process_audio_stream: self.audio_queue.get(timeout=0.1); on queue.Empty
\* the loop continues.
WT_loop_get ==
    /\ script = "whisper"
    /\ wt_loop_pc = "get"
    /\ LET got == WT_get_nowait(wt_queue)
       IN  /\ wt_queue' = got.queue
           /\ wt_raw' = got.item
           /\ wt_loop_pc' = IF got.raised THEN "test" ELSE "extend"
    /\ UNCHANGED <<wt_main, wt_is_running, wt_callbacks, wt_cb_pc,
                   wt_audio_buffer, wt_alive, wt_proc_pc, wt_audio_data,
                   wt_to_remove, wt_trigger,
                   wt_first, wt_window_end, wt_outcome>>
    /\ UNCHANGED WT_Others

\* process_audio_stream: fast_audio_process and audio_buffer.extend; an
\* exception is printed and the loop continues.
WT_loop_extend ==
    /\ script = "whisper"
    /\ wt_loop_pc = "extend"
    /\ \E raised \in BOOLEAN :
           /\ wt_audio_buffer' = IF raised THEN wt_audio_buffer
                                 ELSE Min(wt_audio_buffer + ChunkSamples,
                                          WT_buffer_maxlen)
           /\ wt_first' = IF raised THEN wt_first
                          ELSE wt_first + Max(0, wt_audio_buffer + ChunkSamples
                                                 - WT_buffer_maxlen)
           /\ wt_loop_pc' = IF raised THEN "test" ELSE "trigger"
    /\ wt_raw' = 0
    /\ UNCHANGED <<wt_main, wt_is_running, wt_queue, wt_callbacks, wt_cb_pc,
                   wt_alive, wt_proc_pc, wt_audio_data, wt_to_remove, wt_trigger,
                   wt_window_end, wt_outcome>>
    /\ UNCHANGED WT_Others

\* process_audio_stream: the processing trigger; due is whether more than
\* PROCESSING_INTERVAL has passed since last_transcription_time.
WT_loop_trigger ==
    /\ script = "whisper"
    /\ wt_loop_pc = "trigger"
    /\ \E due \in BOOLEAN :
           LET wanted == wt_audio_buffer >= WT_buffer_size /\ due
               starts == wanted /\ WT_may_start(wt_alive)
           IN  /\ wt_alive' = IF starts THEN wt_alive + 1 ELSE wt_alive
               /\ wt_trigger' = IF starts THEN "started"
                                ELSE IF wanted THEN "skipped" ELSE "not_due"
    /\ wt_loop_pc' = "test"
    /\ UNCHANGED <<wt_main, wt_is_running, wt_queue, wt_callbacks, wt_cb_pc,
                   wt_raw, wt_audio_buffer, wt_proc_pc, wt_audio_data,
                   wt_to_remove, wt_first, wt_window_end, wt_outcome>>
    /\ UNCHANGED WT_Others

\* process_buffer_fast up to model.transcribe: a thread takes
\* processing_lock, copies audio_buffer and returns when it is short or
\* silent.
WT_window(buffer_len) == Min(buffer_len, WT_buffer_size)

WT_process_buffer_fast ==
    /\ script = "whisper"
    /\ wt_alive > 0
    /\ wt_proc_pc = "none"
    /\ \E silent \in BOOLEAN :
           IF wt_audio_buffer < WT_min_audio_samples \/ silent
           THEN /\ wt_alive' = wt_alive - 1
                /\ UNCHANGED <<wt_proc_pc, wt_audio_data, wt_window_end>>
           ELSE /\ wt_proc_pc' = "transcribe"
                /\ wt_audio_data' = WT_window(wt_audio_buffer)
                /\ wt_window_end' = wt_first + wt_audio_buffer
                /\ UNCHANGED wt_alive
    /\ UNCHANGED <<wt_main, wt_is_running, wt_queue, wt_callbacks, wt_cb_pc,
                   wt_loop_pc, wt_raw, wt_audio_buffer, wt_to_remove, wt_trigger,
                   wt_first, wt_outcome>>
    /\ UNCHANGED WT_Others

\* How process_buffer_fast goes on after the copy: model.transcribe raises,
\* or it returns no text, text that is logged, or text that is_fast_quality_ok
\* rejects.
WT_Outcomes == {"raised", "empty", "logged", "filtered"}

\* The outcomes that end in the except clause: an exception of
\* model.transcribe, and the print of the filtered branch, whose format
\* specification ".3f if confidence else 'N/A'" is not a valid one.
WT_raises(outcome) == outcome \in {"raised", "filtered"}

\* process_buffer_fast: model.transcribe and the logging; an exception is
\* printed and the thread ends, else the range of the trimming loop is
\* computed.
WT_transcribe ==
    /\ script = "whisper"
    /\ wt_proc_pc = "transcribe"
    /\ \E outcome \in WT_Outcomes :
           /\ wt_outcome' = outcome
           /\ IF WT_raises(outcome)
              THEN /\ wt_proc_pc' = "none"
                   /\ wt_alive' = wt_alive - 1
                   /\ wt_audio_data' = 0
                   /\ UNCHANGED wt_to_remove
              ELSE /\ wt_proc_pc' = "trim"
                   /\ wt_to_remove' = Min(wt_audio_data - WT_overlap_size,
                                          wt_audio_buffer)
                   /\ UNCHANGED <<wt_alive, wt_audio_data>>
    /\ UNCHANGED <<wt_main, wt_is_running, wt_queue, wt_callbacks, wt_cb_pc,
                   wt_loop_pc, wt_raw, wt_audio_buffer, wt_trigger,
                   wt_first, wt_window_end>>
    /\ UNCHANGED WT_Others

\* process_buffer_fast: one self.audio_buffer.popleft() of the trimming
\* loop, or its end, where the lock is released and the thread ends.
WT_popleft ==
    /\ script = "whisper"
    /\ wt_proc_pc = "trim"
    /\ IF wt_to_remove > 0
       THEN /\ wt_audio_buffer' = wt_audio_buffer - 1
            /\ wt_first' = wt_first + 1
            /\ wt_to_remove' = wt_to_remove - 1
            /\ UNCHANGED <<wt_proc_pc, wt_alive, wt_audio_data>>
       ELSE /\ wt_proc_pc' = "none"
            /\ wt_alive' = wt_alive - 1
            /\ wt_audio_data' = 0
            /\ UNCHANGED <<wt_audio_buffer, wt_to_remove, wt_first>>
    /\ UNCHANGED <<wt_main, wt_is_running, wt_queue, wt_callbacks, wt_cb_pc,
                   wt_loop_pc, wt_raw, wt_trigger, wt_window_end, wt_outcome>>
    /\ UNCHANGED WT_Others

\* start_transcription leaves its wait (Ctrl+C, or the stream is no longer
\* active); finally: self.is_running = False.
WT_stop ==
    /\ script = "whisper"
    /\ wt_main = "listening"
    /\ wt_main' = "stopping"
    /\ wt_is_running' = FALSE
    /\ UNCHANGED <<wt_queue, wt_callbacks, wt_cb_pc, wt_loop_pc, wt_raw,
                   wt_audio_buffer, wt_alive, wt_proc_pc, wt_audio_data,
                   wt_to_remove, wt_trigger,
                   wt_first, wt_window_end, wt_outcome>>
    /\ UNCHANGED WT_Others

\* finally, continued: stream.stop_stream() returns once no callback runs;
\* the stream is closed and the statistics are printed.
WT_stop_stream ==
    /\ script = "whisper"
    /\ wt_main = "stopping"
    /\ wt_cb_pc = "idle"
    /\ wt_main' = "stopped"
    /\ UNCHANGED <<wt_is_running, wt_queue, wt_callbacks, wt_cb_pc, wt_loop_pc,
                   wt_raw, wt_audio_buffer, wt_alive, wt_proc_pc, wt_audio_data,
                   wt_to_remove, wt_trigger,
                   wt_first, wt_window_end, wt_outcome>>
    /\ UNCHANGED WT_Others

\* start_transcription and main return and the interpreter exits.  Both
\* kinds of thread are daemon threads and none is joined: each ends where
\* it is.
WT_exit ==
    /\ script = "whisper"
    /\ wt_main = "stopped"
    /\ wt_main' = "exited"
    /\ wt_loop_pc' = IF wt_loop_pc \in WT_InLoop THEN "killed" ELSE wt_loop_pc
    /\ wt_alive' = 0
    /\ wt_proc_pc' = IF wt_proc_pc = "none" THEN "none" ELSE "killed"
    /\ UNCHANGED <<wt_is_running, wt_queue, wt_callbacks, wt_cb_pc, wt_raw,
                   wt_audio_buffer, wt_audio_data, wt_to_remove, wt_trigger,
                   wt_first, wt_window_end, wt_outcome>>
    /\ UNCHANGED WT_Others

\* The steps of the thread of process_audio_stream.
WT_process_audio_stream ==
    \/ WT_loop_test
    \/ WT_loop_get
    \/ WT_loop_extend
    \/ WT_loop_trigger

WT_Next ==
    \/ WT_start_transcription
    \/ WT_audio_callback
    \/ WT_audio_callback_full
    \/ WT_audio_callback_retry
    \/ WT_process_audio_stream
    \/ WT_process_buffer_fast
    \/ WT_transcribe
    \/ WT_popleft
    \/ WT_stop
    \/ WT_stop_stream
    \/ WT_exit

SpecWhisper == WT_Init /\ [][WT_Next]_vars

\* The same program with the thread of process_audio_stream scheduled
\* fairly while the process lives.
SpecWhisperFair ==
    WT_Init /\ [][WT_Next]_vars /\ WF_vars(WT_process_audio_stream)

\* C14: the audio queue never holds more than its maximum, and an
\* audio_callback that found the queue full discards the oldest queued
\* buffer, leaves the others in their order and returns with its own buffer
\* at the tail of the queue.
C14_FullQueueDropsOldest ==
    /\ [](Len(wt_queue) <= QueueMax)
    /\ [][/\ wt_cb_pc = "full" /\ wt_cb_pc' /= "full"
              => wt_queue /= << >> /\ wt_queue' = Tail(wt_queue)
          /\ wt_cb_pc \in {"full", "retry"} /\ wt_cb_pc' = "idle"
              => /\ wt_queue' /= << >>
                 /\ wt_queue'[Len(wt_queue')] = wt_callbacks
                 /\ \A i \in 1..(Len(wt_queue') - 1) : wt_queue'[i] = wt_queue[i]]_vars

\* C15: at most one thread of process_buffer_fast is alive at any time, and
\* a processing trigger evaluated while one is alive starts no thread.
C15_OneTranscriptionAtATime ==
    /\ [](wt_alive <= 1)
    /\ [][(wt_loop_pc = "trigger" /\ wt_loop_pc' = "test" /\ wt_alive > 0)
              => wt_alive' = wt_alive /\ wt_trigger' /= "started"]_vars

\* A trigger that was due was skipped while a transcription is in flight.
C15_Witness ==
    /\ wt_trigger = "skipped"
    /\ wt_alive = 1
    /\ wt_proc_pc = "transcribe"
    /\ wt_audio_buffer >= 8

\* C16: process_audio_stream is never ended from outside, and once
\* is_running is False while it is inside its loop it leaves the loop.
C16_LoopLeavesByItsOwnCheck ==
    /\ [](wt_loop_pc /= "killed")
    /\ (wt_loop_pc \in WT_InLoop /\ ~wt_is_running) ~> (wt_loop_pc = "exited")

\* C17: process_audio_stream neither extends audio_buffer nor reads its
\* length while a thread of process_buffer_fast is in the middle of
\* trimming it.
C17_BufferNotSharedWhileTrimmed ==
    [][(/\ wt_loop_pc \in {"extend", "trigger"}
        /\ wt_loop_pc' \in {"trigger", "test"}
        /\ (wt_loop_pc = "extend" => wt_loop_pc' = "trigger"))
           => ~(/\ wt_proc_pc = "trim"
                /\ 0 < wt_to_remove
                /\ wt_to_remove < wt_audio_data - 2)]_vars

\* =========================================================================
\* MonitorMesh coordinate conversion (gaze-ml-improved.py, gaze-ml-test.py)
\* =========================================================================
\* MonitorMesh.denormalize_coordinates of (norm_x, norm_y), which are in
\* units of 1/NormScale: int() of left + norm * width.
MM_denormalize_coordinates(mesh, norm_x, norm_y) ==
    <<Trunc(mesh.virtual_left * NormScale + norm_x * mesh.virtual_width,
            NormScale),
      Trunc(mesh.virtual_top * NormScale + norm_y * mesh.virtual_height,
            NormScale)>>

\* MonitorMesh.normalize_coordinates of the pixel (x, y): the quotient, in
\* units of 1/NormScale, rounded to the nearest unit.
MM_normalize_coordinates(mesh, x, y) ==
    <<IF mesh.virtual_width > 0
      THEN RoundDiv((x - mesh.virtual_left) * NormScale, mesh.virtual_width)
      ELSE 0,
      IF mesh.virtual_height > 0
      THEN RoundDiv((y - mesh.virtual_top) * NormScale, mesh.virtual_height)
      ELSE 0>>

\* Normalized coordinates in [0, 1], in units of 1/NormScale.
MM_NormInputs ==
    {0, NormScale \div 3, NormScale \div 2 + 3, (7 * NormScale) \div 10,
     NormScale - 1, NormScale}

\* A mesh as main hands it to the tracker, and a normalized point.
MM_Init ==
    /\ script = "mesh"
    /\ clock = 1
    /\ \E c \in TG_Configs : mm_mesh = TG_main_mesh(c.monitors, c.override)
    /\ mm_mesh.virtual_width > 0
    /\ mm_mesh.virtual_height > 0
    /\ \E nx \in MM_NormInputs, ny \in MM_NormInputs : mm_norm = <<nx, ny>>
    /\ mm_abs = None
    /\ mm_back = None
    /\ ML_Idle
    /\ TG_Idle
    /\ DH_Idle
    /\ APP_Idle
    /\ MS_Idle
    /\ WT_Idle
    /\ RT_Idle

\* denormalize_coordinates(norm_x, norm_y)
MM_denormalize ==
    /\ script = "mesh"
    /\ mm_abs = None
    /\ mm_abs' = Some(MM_denormalize_coordinates(mm_mesh, mm_norm[1], mm_norm[2]))
    /\ UNCHANGED <<mm_mesh, mm_norm, mm_back>>
    /\ UNCHANGED MM_Others

\* normalize_coordinates(abs_x, abs_y) of the result
MM_normalize ==
    /\ script = "mesh"
    /\ mm_abs /= None
    /\ mm_back = None
    /\ mm_back' = Some(MM_normalize_coordinates(mm_mesh, mm_abs[1][1], mm_abs[1][2]))
    /\ UNCHANGED <<mm_mesh, mm_norm, mm_abs>>
    /\ UNCHANGED MM_Others

MM_Next == MM_denormalize \/ MM_normalize

SpecMesh == MM_Init /\ [][MM_Next]_vars

\* C18: for a mesh with positive virtual_width and virtual_height and
\* norm_x, norm_y in [0, 1], normalize_coordinates of denormalize_coordinates
\* of (norm_x, norm_y) is (norm_x, norm_y) up to the rounding of the
\* division (one unit).
C18_RoundTrip ==
    mm_back /= None =>
        /\ Abs(mm_back[1][1] - mm_norm[1]) <= 1
        /\ Abs(mm_back[1][2] - mm_norm[2]) <= 1

\* C19: the virtual-desktop rectangle of the mesh the tracker works with
\* contains the rectangle of every monitor of the mesh.
C19_VirtualDesktopContainsMonitors ==
    tg_mesh /= << >> =>
        \A i \in 1..Len(tg_mesh.monitors) :
            LET m == tg_mesh.monitors[i]
            IN  /\ tg_mesh.virtual_left <= m.x
                /\ tg_mesh.virtual_top <= m.y
                /\ m.x + m.width <= tg_mesh.virtual_left + tg_mesh.virtual_width
                /\ m.y + m.height <= tg_mesh.virtual_top + tg_mesh.virtual_height

\* C20: a record run_tracking prints for a point of generate_demo_gaze has
\* a field that the record of a tracked point does not have.
C20_DemoRecordsMarked ==
    (tg_output /= None /\ tg_raw_gaze = None) =>
        DOMAIN tg_output[1] /= {"x", "y", "confidence", "timestamp", "calibrated"}

\* =========================================================================
\* eye-tracking-ml.py as a program: main and EyeTrackingML.run_tracking
\* =========================================================================

\* Tracking-loop iterations explored.
MaxRunFrames == 4

\* for attempt in range(3)
RT_MaxAttempts == 3

\* --screen-width, --screen-height and --smoothing at their defaults.
RT_screen_width == 1920

RT_screen_height == 1080

RT_smoothing_window == 5

\* calibrate fits the model once at least 5 of the 9 points gave samples.
RT_MinCollected == 5

\* confidence = 0.85 of the demo point
RT_DemoConfidence == 850

\* The command lines: --headless, --gui, --debug, --calibrate.
RT_Args ==
    {[headless |-> TRUE, gui |-> FALSE, debug |-> FALSE, calibrate |-> FALSE],
     [headless |-> TRUE, gui |-> FALSE, debug |-> TRUE, calibrate |-> FALSE],
     [headless |-> TRUE, gui |-> TRUE, debug |-> FALSE, calibrate |-> FALSE],
     [headless |-> FALSE, gui |-> TRUE, debug |-> FALSE, calibrate |-> FALSE],
     [headless |-> FALSE, gui |-> FALSE, debug |-> FALSE, calibrate |-> TRUE]}

\* What a run of calibrate can meet: whether its own VideoCapture opens and
\* for how many of the 9 points samples were collected.
RT_CalibRuns ==
    {[opened |-> FALSE, collected |-> 0],
     [opened |-> TRUE, collected |-> 4],
     [opened |-> TRUE, collected |-> 5]}

\* What one loop iteration can meet: whether cap.read() succeeds, what the
\* regressor predicts for the face found (None: no face), the phase of the
\* demo oscillation and the key cv2.waitKey returns.
RT_Inputs ==
    {[ret |-> TRUE, face |-> Some(<<(3 * NormScale) \div 10, (3 * NormScale) \div 10>>),
      s1 |-> 0, s2 |-> 0, key |-> ""],
     [ret |-> TRUE, face |-> Some(<<NormScale, (12 * NormScale) \div 10>>),
      s1 |-> 0, s2 |-> 0, key |-> ""],
     [ret |-> TRUE, face |-> None, s1 |-> NormScale, s2 |-> 0, key |-> ""],
     [ret |-> FALSE, face |-> None, s1 |-> 0, s2 |-> -NormScale, key |-> ""],
     [ret |-> TRUE, face |-> Some(<<(3 * NormScale) \div 10, (3 * NormScale) \div 10>>),
      s1 |-> 0, s2 |-> 0, key |-> "q"],
     [ret |-> TRUE, face |-> None, s1 |-> 0, s2 |-> 0, key |-> "c"],
     [ret |-> TRUE, face |-> None, s1 |-> 0, s2 |-> 0, key |-> "d"],
     [ret |-> TRUE, face |-> None, s1 |-> 0, s2 |-> 0, key |-> "r"]}

\* A line of text on standard output.
RT_text(what) == [text |-> what]

\* build_simple_model: gaze_model.summary() prints the layer table with
\* print(), that is to standard output, when debug_mode is set.
RT_build_simple_model(debug_mode) ==
    IF debug_mode THEN <<RT_text("Model: sequential")>> ELSE << >>

\* calibrate: its result, the flag it leaves and whether it read the camera.
RT_calibrate(cal, is_calibrated) ==
    IF ~cal.opened
    THEN [ok |-> FALSE, is_calibrated |-> is_calibrated, read |-> FALSE]
    ELSE IF cal.collected >= RT_MinCollected
    THEN [ok |-> TRUE, is_calibrated |-> TRUE, read |-> TRUE]
    ELSE [ok |-> FALSE, is_calibrated |-> is_calibrated, read |-> TRUE]

\* The demo point of run_tracking: an oscillation about the screen centre.
RT_demo_gaze(s1, s2, now) ==
    GazePoint(RoundDiv((3 * s1 + 5 * NormScale) * RT_screen_width, NormScale),
              RoundDiv((2 * s2 + 5 * NormScale) * RT_screen_height, NormScale),
              RT_DemoConfidence, now)

\* The gaze_data dictionary of run_tracking, as json.dumps prints it.
RT_to_json(gaze_point, calibrated) ==
    [x |-> gaze_point.x, y |-> gaze_point.y,
     confidence |-> gaze_point.confidence,
     timestamp |-> gaze_point.timestamp, calibrated |-> calibrated]

\* if camera_available and cap is not None (cap is None exactly when
\* camera_available is False once the loop runs)
RT_reads_camera_Always(camera_available) == TRUE

RT_reads_camera(camera_available) == camera_available

\* if args.headless and args.gui: the combination main refuses.
RT_conflicting(args) == args.headless /\ args.gui

\* The state before main runs.
RT_Init ==
    /\ script = "mlrun"
    /\ clock = 0
    /\ ML_Idle
    /\ TG_Idle
    /\ DH_Idle
    /\ APP_Idle
    /\ MS_Idle
    /\ WT_Idle
    /\ MM_Idle
    /\ rt_pc = "main"
    /\ rt_args \in RT_Args
    /\ rt_exit_status = None
    /\ rt_tracker = FALSE
    /\ rt_debug_mode = FALSE
    /\ rt_is_calibrated = FALSE
    /\ rt_fitted = FALSE
    /\ rt_processing = FALSE
    /\ rt_attempt = 0
    /\ rt_camera_available = FALSE
    /\ rt_lost = FALSE
    /\ rt_reads = 0
    /\ rt_calib_reads = 0
    /\ rt_stop_requested = FALSE
    /\ rt_frame_count = 0
    /\ rt_gaze_history = << >>
    /\ rt_stdout = << >>

\* main up to the call of run_tracking: the arguments are validated, the
\* tracker is constructed and the start-up calibration is done.
RT_main ==
    /\ script = "mlrun"
    /\ rt_pc = "main"
    /\ \E cal \in RT_CalibRuns :
         LET built == RT_build_simple_model(rt_args.debug)
             c == RT_calibrate(cal, FALSE)
         IN  IF RT_conflicting(rt_args)
             THEN /\ rt_pc' = "exited"
                  /\ rt_exit_status' = Some(0)
                  /\ rt_stdout' = << >>
                  /\ UNCHANGED <<rt_tracker, rt_debug_mode, rt_is_calibrated,
                                 rt_fitted, rt_processing, rt_calib_reads>>
             ELSE /\ rt_tracker' = TRUE
                  /\ rt_debug_mode' = rt_args.debug
                  /\ rt_stdout' = built
                  /\ IF rt_args.headless
                     THEN /\ rt_is_calibrated' = TRUE
                          /\ rt_pc' = "opening"
                          /\ rt_processing' = TRUE
                          /\ UNCHANGED <<rt_fitted, rt_calib_reads, rt_exit_status>>
                     ELSE IF rt_args.calibrate
                     THEN /\ rt_is_calibrated' = c.is_calibrated
                          /\ rt_fitted' = c.ok
                          /\ rt_calib_reads' = rt_calib_reads + (IF c.read THEN 1 ELSE 0)
                          /\ IF c.ok
                             THEN /\ rt_pc' = "opening"
                                  /\ rt_processing' = TRUE
                                  /\ UNCHANGED rt_exit_status
                             ELSE /\ rt_pc' = "exited"
                                  /\ rt_processing' = FALSE
                                  /\ rt_exit_status' = Some(0)
                     ELSE /\ rt_pc' = "opening"
                          /\ rt_processing' = TRUE
                          /\ UNCHANGED <<rt_is_calibrated, rt_fitted,
                                         rt_calib_reads, rt_exit_status>>
    /\ UNCHANGED <<clock, rt_args, rt_attempt, rt_camera_available, rt_lost,
                   rt_reads, rt_stop_requested, rt_frame_count, rt_gaze_history>>
    /\ UNCHANGED RT_Others

\* One attempt of run_tracking to open the camera, over all the backends of
\* the platform; after the last one the loop starts without a camera.
RT_open_attempt ==
    /\ script = "mlrun"
    /\ rt_pc = "opening"
    /\ rt_attempt < RT_MaxAttempts
    /\ \E opened \in BOOLEAN :
         /\ rt_attempt' = rt_attempt + 1
         /\ rt_camera_available' = opened
         /\ rt_pc' = IF opened \/ rt_attempt + 1 >= RT_MaxAttempts
                     THEN "loop" ELSE "opening"
         /\ rt_lost' = (~opened /\ rt_attempt + 1 >= RT_MaxAttempts)
    /\ rt_stdout' = << >>
    /\ UNCHANGED <<clock, rt_args, rt_exit_status, rt_tracker, rt_debug_mode,
                   rt_is_calibrated, rt_fitted, rt_processing, rt_reads,
                   rt_calib_reads, rt_stop_requested, rt_frame_count,
                   rt_gaze_history>>
    /\ UNCHANGED RT_Others

\* One iteration of while self.processing.
RT_iteration ==
    /\ script = "mlrun"
    /\ rt_pc = "loop"
    /\ rt_processing
    /\ rt_frame_count < MaxRunFrames
    /\ \E in \in RT_Inputs, cal \in RT_CalibRuns :
         LET reads == RT_reads_camera(rt_camera_available)
             got == reads /\ in.ret
             available == rt_camera_available /\ ~(reads /\ ~in.ret)
             frame_count == rt_frame_count + (IF got THEN 1 ELSE 0)
                                           + (IF available THEN 0 ELSE 1)
             raw == ML_estimate_gaze(in.face[1], RT_screen_width,
                                     RT_screen_height, clock)
             hist == IF got /\ in.face /= None
                     THEN DequeAppend(rt_gaze_history, raw, RT_smoothing_window)
                     ELSE rt_gaze_history
             tracked == IF got /\ in.face /= None
                        THEN Some(ML_smooth_gaze(hist, raw)) ELSE None
             gaze_point == IF tracked = None
                              /\ (rt_args.headless \/ frame_count % 60 = 0)
                           THEN Some(RT_demo_gaze(in.s1, in.s2, clock))
                           ELSE tracked
             printed == IF gaze_point /= None /\ rt_args.headless
                        THEN <<RT_to_json(gaze_point[1], rt_is_calibrated)>>
                        ELSE << >>
             key == IF rt_args.headless THEN ""
                    ELSE IF rt_args.gui THEN in.key
                    ELSE IF in.key \in {"q", "c"} THEN in.key ELSE ""
             c == RT_calibrate(cal, rt_is_calibrated)
         IN  /\ clock' = clock + 1
             /\ rt_reads' = rt_reads + (IF reads THEN 1 ELSE 0)
             /\ rt_camera_available' = available
             /\ rt_lost' = (rt_lost \/ (reads /\ ~in.ret))
             /\ rt_frame_count' = frame_count
             /\ rt_gaze_history' = hist
             /\ rt_stdout' = printed
                             \o (IF key = "r"
                                 THEN RT_build_simple_model(rt_debug_mode)
                                 ELSE << >>)
             /\ rt_pc' = IF key = "q" THEN "exited" ELSE "loop"
             /\ rt_exit_status' = IF key = "q" THEN Some(0) ELSE rt_exit_status
             /\ rt_processing' = IF key = "q" THEN FALSE ELSE rt_processing
             /\ rt_stop_requested' = (rt_stop_requested \/ key = "q")
             /\ rt_debug_mode' = IF key = "d" THEN ~rt_debug_mode ELSE rt_debug_mode
             /\ rt_is_calibrated' = IF key = "c" THEN c.is_calibrated
                                    ELSE IF key = "r" THEN FALSE
                                    ELSE rt_is_calibrated
             /\ rt_fitted' = IF key = "c" THEN (rt_fitted \/ c.ok)
                             ELSE IF key = "r" THEN FALSE
                             ELSE rt_fitted
             /\ rt_calib_reads' = rt_calib_reads
                                  + (IF key = "c" /\ c.read THEN 1 ELSE 0)
    /\ UNCHANGED <<rt_args, rt_tracker, rt_attempt>>
    /\ UNCHANGED RT_Others

\* stop_tracking, called from another thread while the loop runs.
RT_stop_tracking ==
    /\ script = "mlrun"
    /\ rt_pc = "loop"
    /\ rt_processing
    /\ rt_processing' = FALSE
    /\ rt_stop_requested' = TRUE
    /\ rt_stdout' = << >>
    /\ UNCHANGED <<clock, rt_pc, rt_args, rt_exit_status, rt_tracker,
                   rt_debug_mode, rt_is_calibrated, rt_fitted, rt_attempt,
                   rt_camera_available, rt_lost, rt_reads, rt_calib_reads,
                   rt_frame_count, rt_gaze_history>>
    /\ UNCHANGED RT_Others

\* The loop test finds processing False: run_tracking cleans up and returns,
\* main's finally clause runs and the process ends.
RT_return ==
    /\ script = "mlrun"
    /\ rt_pc = "loop"
    /\ ~rt_processing
    /\ rt_pc' = "exited"
    /\ rt_exit_status' = Some(0)
    /\ rt_stdout' = << >>
    /\ UNCHANGED <<clock, rt_args, rt_tracker, rt_debug_mode, rt_is_calibrated,
                   rt_fitted, rt_processing, rt_attempt, rt_camera_available,
                   rt_lost, rt_reads, rt_calib_reads, rt_stop_requested,
                   rt_frame_count, rt_gaze_history>>
    /\ UNCHANGED RT_Others

\* Ctrl+C while run_tracking runs: main catches KeyboardInterrupt, its
\* finally clause calls stop_tracking and the process ends.
RT_KeyboardInterrupt ==
    /\ script = "mlrun"
    /\ rt_pc \in {"opening", "loop"}
    /\ rt_pc' = "exited"
    /\ rt_processing' = FALSE
    /\ rt_stop_requested' = TRUE
    /\ rt_exit_status' = Some(0)
    /\ rt_stdout' = << >>
    /\ UNCHANGED <<clock, rt_args, rt_tracker, rt_debug_mode, rt_is_calibrated,
                   rt_fitted, rt_attempt, rt_camera_available, rt_lost,
                   rt_reads, rt_calib_reads, rt_frame_count, rt_gaze_history>>
    /\ UNCHANGED RT_Others

RT_Next ==
    \/ RT_main
    \/ RT_open_attempt
    \/ RT_iteration
    \/ RT_stop_tracking
    \/ RT_return
    \/ RT_KeyboardInterrupt

SpecRun == RT_Init /\ [][RT_Next]_vars

C22_StdoutOnlyGazeRecords ==
    rt_args.headless =>
        \A i \in 1..Len(rt_stdout) :
            DOMAIN rt_stdout[i] = {"x", "y", "confidence", "timestamp", "calibrated"}

\* C23: started with both --headless and --gui, the process constructs no
\* tracker and ends with a non-zero exit status.
C23_ConflictingModesExitNonZero ==
    (rt_args.headless /\ rt_args.gui /\ rt_pc = "exited") =>
        (~rt_tracker /\ rt_exit_status /= None /\ rt_exit_status[1] /= 0)

\* C24: a record printed with calibrated true comes from a tracker whose
\* calibration fit has completed since its creation or last reset.
C24_CalibratedOnlyAfterFit ==
    \A i \in 1..Len(rt_stdout) :
        ("calibrated" \in DOMAIN rt_stdout[i] /\ rt_stdout[i].calibrated) => rt_fitted

\* C25: the coordinates estimate_gaze converts to virtual-desktop coordinates
\* lie in [0,1], also with the calibration transform active, so the point it
\* returns lies within the virtual desktop.
C25_EstimateWithinVirtualDesktop ==
    app_raw_gaze /= None =>
        /\ app_raw_gaze[1].x >= app_mesh.virtual_left * CoordScale
        /\ app_raw_gaze[1].x <= (app_mesh.virtual_left + app_mesh.virtual_width) * CoordScale
        /\ app_raw_gaze[1].y >= app_mesh.virtual_top * CoordScale
        /\ app_raw_gaze[1].y <= (app_mesh.virtual_top + app_mesh.virtual_height) * CoordScale

\* C26: the drag guard leaves Tracking only when the gaze is inside the
\* titlebar strip of the window: within the window's horizontal extent and at
\* most 30 pixels below its top edge.
C26_PausesOnlyInsideTitlebarStrip ==
    [][(~dh_is_dragging /\ dh_is_dragging') =>
           /\ dh_gaze' /= None
           /\ dh_bounds'[1].x * CoordScale <= dh_gaze'[1].x
           /\ dh_gaze'[1].x <= (dh_bounds'[1].x + dh_bounds'[1].width) * CoordScale
           /\ dh_bounds'[1].y * CoordScale <= dh_gaze'[1].y
           /\ dh_gaze'[1].y <= (dh_bounds'[1].y + 30) * CoordScale]_vars

\* C27: for a mesh with more than one monitor the sensitivity multiplier of
\* estimate_gaze_enhanced lies in [1.0, 2.5] and is never lower than the
\* single-monitor base of 1.5.
C27_MultiMonitorSensitivityAtLeastBase ==
    (tg_raw_gaze /= None /\ Len(tg_mesh.monitors) > 1) =>
        /\ Sensitivity[tg_mesh] >= SensScale
        /\ 2 * Sensitivity[tg_mesh] <= 5 * SensScale
        /\ 2 * Sensitivity[tg_mesh] >= 3 * SensScale

\* C28: under every interleaving of audio_callback with the get of
\* process_audio_stream, the buffer passed to audio_callback is in the queue
\* when the callback returns, and a buffer the callback discards is an older
\* one.
C28_DeliveredBufferIsQueued ==
    [][/\ ((wt_callbacks' = wt_callbacks + 1 \/ wt_cb_pc /= "idle")
           /\ wt_cb_pc' = "idle")
          => \E i \in 1..Len(wt_queue') : wt_queue'[i] = wt_callbacks'
       /\ (wt_cb_pc = "full" /\ wt_cb_pc' = "retry")
          => (wt_queue /= << >> /\ wt_queue[1] < wt_callbacks)]_vars

\* C29: after every process_buffer_fast cycle that transcribed a window
\* (logged, filtered as low quality, or empty), the samples of that window
\* older than its last overlap_size samples are no longer in audio_buffer.
C29_TranscribedWindowTrimmed ==
    [][(wt_proc_pc \in {"transcribe", "trim"} /\ wt_proc_pc' = "none"
        /\ wt_outcome' \in {"logged", "filtered", "empty"})
       => wt_first' >= wt_window_end' - WT_overlap_size]_vars

\* =========================================================================
\* TauriGazeTracker with its drag_handler
\* =========================================================================
\* Loop iterations of run_tracking explored between the calls on the guard.
MaxGuardFrames == 1

\* One iteration of the loop of run_tracking, on the tracker whose
\* drag_handler is being called.
G_Loop ==
    /\ script = "drag"
    /\ tg_iterations < MaxGuardFrames
    /\ \E in \in TG_Inputs : TG_Iteration(in)

G_Next == G_Loop \/ DH_Call \/ TG_pause_for_drag \/ TG_resume_after_drag

SpecGuard == DH_Init /\ [][G_Next]_vars

\* C30: whatever the sequence of run_tracking iterations, detect_window_drag
\* calls on the drag_handler, pause_for_drag and resume_after_drag calls,
\* pause_tracking is True whenever is_dragging is True.
C30_DraggingImpliesPaused == dh_is_dragging => tg_pause_tracking

=============================================================================
